---- MODULE Spec2Model ----
(***************************************************************************)
(* The round/session state machine of the Insect Song Learning Game.      *)
(*                                                                         *)
(* The repository holds several versions of game.js.  Two are modelled    *)
(* here, side by side, and `impl` says which one a behaviour runs:         *)
(*   "game.js"  - src/game.js, the session-list version: a game is the     *)
(*                first TOTAL_ROUNDS songs of a shuffled region pool;      *)
(*   "part_002" - src/unnamed/part_002, the draw-queue version: targets    *)
(*                are shifted off a shuffled queue of pool indices that     *)
(*                is refilled when it runs empty.                          *)
(* Definitions keep the names of the source.  Where both versions use the  *)
(* same name for different code, the part_002 one carries the suffix 2.    *)
(*                                                                         *)
(* A species is identified by its position in the catalog (1..Len).        *)
(* JavaScript arrays are 0-based; sessionIndex keeps the source's 0-based  *)
(* value and speciesQueue holds 1-based positions of filteredSpecies.      *)
(* A click on a disabled button dispatches no event: it is a step that     *)
(* changes nothing.                                                        *)
(***************************************************************************)
EXTENDS Integers, Sequences, FiniteSets

VARIABLES
    impl,                 \* which version of game.js runs
    catalog,              \* window.SONGS_DATA / window.SPECIES_DATA
    callArgs, callResult, \* one call of a pure function: its arguments, its result
    currentMode,          \* both versions
    currentRegion,        \* both versions
    nextBtnDisabled,      \* #next-btn .disabled
    answersDisabled,      \* .answer-btn .disabled (all buttons of the round)
    startOverlayHidden,   \* #start-overlay has class hidden
    endOverlayHidden,     \* #end-overlay has class hidden
    endMessageText,       \* the text of #end-message the player sees: NoText
                          \* while the end overlay is hidden
    revealOverlayHidden,  \* part_003: #reveal-overlay has class hidden (the
                          \* other versions have no such element)
    \* ---- game.js
    sciNamesOn, sessionSongs, sessionIndex, currentSong,
    roundsAnswered, scoreCorrect, hasAnswered, hadWrongGuess,
    answerBtns,           \* the song objects a button of #answers-list can carry
    analyticsCalls,       \* the recordGameStarted / recordGameCompleted call sites
                          \* the current game has reached: the calls made when
                          \* window.InsectGameAnalytics is there
    \* ---- part_002
    showScientificNames, filteredSpecies, speciesQueue, currentRound,
    correctFirstTry, currentSpecies, currentOptions,
    firstGuessThisRound, hasAnsweredThisRound,
    \* ---- Analytics.js
    analyticsPresent,     \* window.InsectGameAnalytics is defined
    stats,                \* the stats object of Analytics.js
    storage               \* localStorage[STATS_KEY]: NoBlob, Blocked, Unparsable
                          \* or the members of the stored JSON text

domVars == <<nextBtnDisabled, answersDisabled, startOverlayHidden, endOverlayHidden,
             endMessageText>>
gameVars == <<sciNamesOn, sessionSongs, sessionIndex, currentSong,
              roundsAnswered, scoreCorrect, hasAnswered, hadWrongGuess, answerBtns,
              analyticsCalls>>
queueVars == <<showScientificNames, filteredSpecies, speciesQueue, currentRound,
               correctFirstTry, currentSpecies, currentOptions,
               firstGuessThisRound, hasAnsweredThisRound>>
statsVars == <<analyticsPresent, stats, storage>>
pageVars == <<impl, catalog, callArgs, callResult, revealOverlayHidden>>
envVars == <<pageVars, statsVars>>
vars == <<envVars, currentMode, currentRegion, domVars, gameVars, queueVars>>

-----------------------------------------------------------------------------
(* Configuration and data *)

TOTAL_ROUNDS == 5
ROUNDS_PER_GAME == 5
\* "region appears if >5 species"
RegionThreshold == 5
\* how many wrong options a round shows: slice(0, 3)
WrongCount == 3

\* sessionIndex grows without limit when Next is clicked past the end of a
\* session list shorter than TOTAL_ROUNDS; the model stops the clicks here
MaxSessionIndex == 6

MODES == {"spectrogram", "image", "facts"}
SPECTRO == "spectrogram"

\* null, for currentSong / currentSpecies and for currentRegion in game.js
NoSong == 0
NoRegion == "<null>"
AllRegions == "All regions"

\* One record of species-data.js.  game.js reads .region (a string),
\* part_002 reads .regions (an array); "" is a missing region.
Species(name, region) ==
    [commonName |-> name, region |-> region,
     regions |-> IF region = "" THEN {} ELSE {region}]

CatalogOne == << Species("a", "East") >>
CatalogThree == << Species("a", "East"), Species("b", "East"), Species("c", "") >>
CatalogFive == << Species("a", ""), Species("b", ""), Species("c", ""),
                  Species("d", ""), Species("e", "") >>
CatalogSix == << Species("a", ""), Species("b", ""), Species("c", ""),
                 Species("d", ""), Species("e", ""), Species("f", "") >>

\* the largest catalog the calls of buildChoices / buildOptions are tried on
MaxPool == 5

Names == <<"a", "b", "c", "d", "e", "f", "g">>

\* n species with distinct names, the first m of them of region "East", the
\* others of region "West"
OptionCatalog(n, m) ==
    [i \in 1..n |-> Species(Names[i], IF i <= m THEN "East" ELSE "West")]
OptionCatalogs == UNION {{OptionCatalog(n, m) : m \in 0..n} : n \in 1..MaxPool}

SONGS == catalog
ALL_SPECIES == catalog

-----------------------------------------------------------------------------
(* Utilities *)

Range(s) == {s[i] : i \in DOMAIN s}
Indices(arr) == [i \in 1..Len(arr) |-> i]
Min(a, b) == IF a < b THEN a ELSE b

\* arr.slice(0, n)
slice(arr, n) == SubSeq(arr, 1, Min(n, Len(arr)))

RECURSIVE Orderings(_)
Orderings(S) ==
    IF S = {} THEN {<<>>}
    ELSE UNION {{<<x>> \o p : p \in Orderings(S \ {x})} : x \in S}

\* game.js shuffle: sort by an independent random key per element; every
\* order of the elements is a possible result.
shuffle(arr) ==
    {[i \in 1..Len(arr) |-> arr[p[i]]] : p \in Orderings(1..Len(arr))}

Swap(a, i, j) == [a EXCEPT ![i] = a[j], ![j] = a[i]]

\* part_002 shuffleArray: Fisher-Yates, for i from the last position down to
\* the second, swap a[i] with a[j] for a random j <= i.
\* one with j < i only
randomIndex_BelowI(i) == 1..(i - 1)
\* Math.floor(Math.random() * (i + 1)): any j <= i (positions counted from 1)
randomIndex(i) == 1..i

RECURSIVE FisherYates(_, _)
FisherYates(a, i) ==
    IF i <= 1 THEN {a}
    ELSE UNION {FisherYates(Swap(a, i, j), i - 1) : j \in randomIndex(i)}

shuffleArray(arr) == FisherYates(arr, Len(arr))

\* the sequences of values of j that one call on n elements can draw:
\* js[i] is the j of the loop pass at position i
IndexChoices(n) == {js \in [2..n -> 1..n] : \A i \in 2..n : js[i] \in randomIndex(i)}

\* shuffleArray with the values of j given
RECURSIVE FisherYatesWith(_, _, _)
FisherYatesWith(a, i, js) ==
    IF i <= 1 THEN a ELSE FisherYatesWith(Swap(a, i, js[i]), i - 1, js)

\* game.js shuffle with the values r of Math.random() given: the place of
\* element i after the sort by r (Array.prototype.sort is stable)
placeOf(r, i) ==
    Cardinality({m \in DOMAIN r : r[m] < r[i] \/ (r[m] = r[i] /\ m < i)}) + 1

shuffleWith(arr, r) ==
    [k \in 1..Len(arr) |-> arr[CHOOSE i \in 1..Len(arr) : placeOf(r, i) = k]]

-----------------------------------------------------------------------------
(* End messages; calls to window.InsectGameAnalytics *)

\* the text of #end-message while the overlay is hidden
NoText == "<hidden>"

\* game.js endMessage(score, mode)
\* endMessage without the branch for the facts mode and without a last return
endMessage_NoFactsBranch(score, mode) ==
    IF mode = "spectrogram" THEN
        CASE score = 0 -> "You need to clean your ears. Play again..."
          [] score = 1 -> "You need to learn to listen. Play again..."
          [] score = 2 -> "Almost half way there!"
          [] score = 3 -> "Pretty good! Your chance of finding a mate is more than 50%!"
          [] score = 4 -> "Impressive ears!"
          [] OTHER -> "Master of insect sounds! You must be an insect sound biologist!"
    ELSE IF mode = "image" THEN
        CASE score = 0 -> "You need new glasses. Play again..."
          [] score = 1 -> "You need to look more closely. Play again..."
          [] score = 2 -> "Almost half way there! Keep sharpening your eyes."
          [] score = 3 -> "Pretty good! Your field ID skills are waking up."
          [] score = 4 -> "Impressive eye for insects!"
          [] OTHER -> "Master of insect identification! Your field guide game is strong!"
    ELSE ""

endMessage(score, mode) ==
    IF mode = "spectrogram" THEN
        CASE score = 0 -> "You need to clean your ears. Play again..."
          [] score = 1 -> "You need to learn to listen. Play again..."
          [] score = 2 -> "Almost half way there!"
          [] score = 3 -> "Pretty good! Your chance of finding a mate is more than 50%!"
          [] score = 4 -> "Impressive ears!"
          [] OTHER -> "Master of insect sounds! You must be an insect sound biologist!"
    ELSE IF mode = "image" THEN
        CASE score = 0 -> "You need new glasses. Play again..."
          [] score = 1 -> "You need to look more closely. Play again..."
          [] score = 2 -> "Almost half way there! Keep sharpening your eyes."
          [] score = 3 -> "Pretty good! Your field ID skills are waking up."
          [] score = 4 -> "Impressive eye for insects!"
          [] OTHER -> "Master of insect identification! Your field guide game is strong!"
    ELSE IF mode = "facts" THEN
        CASE score = 0 -> "You need to hit the books. Play again..."
          [] score = 1 -> "You need to brush up your insect trivia."
          [] score = 2 -> "Almost half way there! These facts are starting to stick."
          [] score = 3 -> "Pretty good! Your insect natural history memory is solid."
          [] score = 4 -> "Impressive knowledge! You're almost a walking field guide."
          [] OTHER -> "Master of insect facts! You must be an insect natural history expert!"
    ELSE "Nice work!"

Max(a, b) == IF a > b THEN a ELSE b

\* part_002 getEndMessage(mode, score); the score is clamped to 0..5
getEndMessage(mode, score) ==
    LET s == Max(0, Min(5, score)) IN
    IF mode = "spectrogram" THEN
        CASE s = 0 -> "You need to clean your ears. Play again..."
          [] s = 1 -> "You need to learn to listen. Play again..."
          [] s = 2 -> "Almost halfway there!"
          [] s = 3 -> "Pretty good! Your chance of finding a mate is more than 50%!"
          [] s = 4 -> "Impressive ears!"
          [] s = 5 -> "Master of insect sounds! You must be an insect sound biologist!"
    ELSE IF mode = "image" THEN
        CASE s = 0 -> "You might need new glasses. Try again!"
          [] s = 1 -> "You're just getting warmed up - look more closely!"
          [] s = 2 -> "Almost halfway there - those field marks are adding up."
          [] s = 3 -> "Pretty good insect spotting!"
          [] s = 4 -> "Excellent eye for detail!"
          [] s = 5 -> "Visual ID master! You'd make a great field guide illustrator."
    ELSE IF mode = "facts" THEN
        CASE s = 0 -> "You need to study your insect facts. Try again!"
          [] s = 1 -> "You're just getting to know these species - keep reading!"
          [] s = 2 -> "Almost halfway there - those natural history facts are sinking in."
          [] s = 3 -> "Pretty good knowledge! The insects are impressed."
          [] s = 4 -> "Great memory for insect trivia!"
          [] s = 5 -> "Natural history wizard! You definitely think like an insect biologist."
    ELSE "Nice work!"

\* game.js getActiveRegionName: currentRegion || "All regions"
getActiveRegionName(region) == IF region = NoRegion THEN AllRegions ELSE region

\* the arguments of one call of Analytics.js recordGameStarted
recordGameStarted(mode, regionName) ==
    [call |-> "recordGameStarted", mode |-> mode, region |-> regionName]

\* the arguments of one call of Analytics.js recordGameCompleted
recordGameCompleted(mode, regionName, score, roundsTotal) ==
    [call |-> "recordGameCompleted", mode |-> mode, region |-> regionName,
     score |-> score, roundsTotal |-> roundsTotal]

\* the argument of one call of Analytics.js recordRegionChoice
recordRegionChoice(regionName) ==
    [call |-> "recordRegionChoice", region |-> regionName]

-----------------------------------------------------------------------------
(* Analytics.js: the stats object and its copy in localStorage *)

\* localStorage.getItem(STATS_KEY) === null
NoBlob == [item |-> "none"]
\* a stored string JSON.parse throws on
Unparsable == [item |-> "not JSON"]
\* no item, and setItem throws (private mode, quota)
Blocked == [item |-> "none, and setItem throws"]
\* an object without keys, {}
EmptyObject == [k \in {} |-> 0]

\* a fresh entry of modeStats
NewModeStats == [gamesStarted |-> 0, gamesCompleted |-> 0, totalScore |-> 0, totalRounds |-> 0]
\* a fresh entry of regionStats
NewRegionStats ==
    [gamesStarted |-> 0, gamesCompleted |-> 0, totalScore |-> 0, totalRounds |-> 0,
     chosenCount |-> 0]

\* firstVisitAt (a time stamp) and referrers are left out
createEmptyStats ==
    [pageViews |-> 0, gamesStarted |-> 0, gamesCompleted |-> 0,
     modeStats |-> EmptyObject, regionStats |-> EmptyObject]

\* obj with obj[key] = value
put(obj, key, value) ==
    [k \in DOMAIN obj \cup {key} |-> IF k = key THEN value ELSE obj[k]]

\* the stats after ensureModeStats(mode)
ensureModeStats(st, mode) ==
    IF mode \in DOMAIN st.modeStats THEN st
    ELSE [st EXCEPT !.modeStats = put(st.modeStats, mode, NewModeStats)]

\* regionName || "All regions"
regKeyOf(regionName) ==
    IF regionName = NoRegion \/ regionName = "" THEN AllRegions ELSE regionName

\* the stats after ensureRegionStats(regionName)
ensureRegionStats(st, regionName) ==
    LET key == regKeyOf(regionName) IN
    IF key \in DOMAIN st.regionStats THEN st
    ELSE [st EXCEPT !.regionStats = put(st.regionStats, key, NewRegionStats)]

\* the stats object after recordPageView (referrers left out)
recordPageViewIn(st) == [st EXCEPT !.pageViews = @ + 1]

\* recordGameStarted without the count of the region
recordGameStartedIn_NoRegionCount(st, mode, regionName) ==
    LET s1 == [st EXCEPT !.gamesStarted = @ + 1]
        s2 == ensureModeStats(s1, mode)
    IN [s2 EXCEPT !.modeStats[mode].gamesStarted = @ + 1]

\* the stats object after recordGameStarted(mode, regionName)
recordGameStartedIn(st, mode, regionName) ==
    LET regKey == regKeyOf(regionName)
        s1 == [st EXCEPT !.gamesStarted = @ + 1]
        s2 == ensureModeStats(s1, mode)
        s3 == [s2 EXCEPT !.modeStats[mode].gamesStarted = @ + 1]
        s4 == ensureRegionStats(s3, regKey)
    IN [s4 EXCEPT !.regionStats[regKey].gamesStarted = @ + 1]

\* recordGameCompleted adding the rounds to the entry of the mode only
recordGameCompletedIn_RoundsInModeOnly(st, mode, regionName, score, roundsTotal) ==
    LET regKey == regKeyOf(regionName)
        s1 == [st EXCEPT !.gamesCompleted = @ + 1]
        s2 == ensureModeStats(s1, mode)
        s3 == [s2 EXCEPT !.modeStats[mode].gamesCompleted = @ + 1,
                         !.modeStats[mode].totalScore = @ + score,
                         !.modeStats[mode].totalRounds = @ + roundsTotal]
        s4 == ensureRegionStats(s3, regKey)
    IN [s4 EXCEPT !.regionStats[regKey].gamesCompleted = @ + 1,
                  !.regionStats[regKey].totalScore = @ + score]

\* the stats object after recordGameCompleted(mode, regionName, score, roundsTotal)
recordGameCompletedIn(st, mode, regionName, score, roundsTotal) ==
    LET regKey == regKeyOf(regionName)
        s1 == [st EXCEPT !.gamesCompleted = @ + 1]
        s2 == ensureModeStats(s1, mode)
        s3 == [s2 EXCEPT !.modeStats[mode].gamesCompleted = @ + 1,
                         !.modeStats[mode].totalScore = @ + score,
                         !.modeStats[mode].totalRounds = @ + roundsTotal]
        s4 == ensureRegionStats(s3, regKey)
    IN [s4 EXCEPT !.regionStats[regKey].gamesCompleted = @ + 1,
                  !.regionStats[regKey].totalScore = @ + score,
                  !.regionStats[regKey].totalRounds = @ + roundsTotal]

\* the stats object after recordRegionChoice(regionName)
recordRegionChoiceIn(st, regionName) ==
    LET regKey == regKeyOf(regionName)
        s1 == ensureRegionStats(st, regKey)
    IN [s1 EXCEPT !.regionStats[regKey].chosenCount = @ + 1]

\* the decimal digits JSON.stringify writes for a counter, most significant first
RECURSIVE Digits(_)
Digits(n) == IF n < 10 THEN <<n>> ELSE Append(Digits(n \div 10), n % 10)
\* the number JSON.parse reads from decimal digits
RECURSIVE NumberOf(_)
NumberOf(ds) ==
    IF Len(ds) = 1 THEN ds[1]
    ELSE 10 * NumberOf(SubSeq(ds, 1, Len(ds) - 1)) + ds[Len(ds)]

\* JSON.stringify of an object whose members are counters
stringifyCounters(obj) == [k \in DOMAIN obj |-> Digits(obj[k])]
\* JSON.parse of such an object
parseCounters(json) == [k \in DOMAIN json |-> NumberOf(json[k])]

\* JSON.stringify(stats): the stored text, as the members it holds
JSONstringify(st) ==
    [pageViews |-> Digits(st.pageViews),
     gamesStarted |-> Digits(st.gamesStarted),
     gamesCompleted |-> Digits(st.gamesCompleted),
     modeStats |-> [m \in DOMAIN st.modeStats |-> stringifyCounters(st.modeStats[m])],
     regionStats |-> [r \in DOMAIN st.regionStats |-> stringifyCounters(st.regionStats[r])]]

\* loadStats that does not read regionStats back
loadStats_WithoutRegionStats(raw) ==
    IF raw = NoBlob \/ raw = Blocked \/ raw = Unparsable THEN createEmptyStats
    ELSE [pageViews |-> IF "pageViews" \in DOMAIN raw THEN NumberOf(raw.pageViews) ELSE 0,
          gamesStarted |->
              IF "gamesStarted" \in DOMAIN raw THEN NumberOf(raw.gamesStarted) ELSE 0,
          gamesCompleted |->
              IF "gamesCompleted" \in DOMAIN raw THEN NumberOf(raw.gamesCompleted) ELSE 0,
          modeStats |->
              IF "modeStats" \in DOMAIN raw
              THEN [m \in DOMAIN raw.modeStats |-> parseCounters(raw.modeStats[m])]
              ELSE EmptyObject,
          regionStats |-> EmptyObject]

\* loadStats on the stored item: empty stats when there is none or when
\* JSON.parse throws, otherwise the stored members, each with its default
loadStats(raw) ==
    IF raw = NoBlob \/ raw = Blocked \/ raw = Unparsable THEN createEmptyStats
    ELSE [pageViews |-> IF "pageViews" \in DOMAIN raw THEN NumberOf(raw.pageViews) ELSE 0,
          gamesStarted |->
              IF "gamesStarted" \in DOMAIN raw THEN NumberOf(raw.gamesStarted) ELSE 0,
          gamesCompleted |->
              IF "gamesCompleted" \in DOMAIN raw THEN NumberOf(raw.gamesCompleted) ELSE 0,
          modeStats |->
              IF "modeStats" \in DOMAIN raw
              THEN [m \in DOMAIN raw.modeStats |-> parseCounters(raw.modeStats[m])]
              ELSE EmptyObject,
          regionStats |->
              IF "regionStats" \in DOMAIN raw
              THEN [r \in DOMAIN raw.regionStats |-> parseCounters(raw.regionStats[r])]
              ELSE EmptyObject]

\* the stored item after saveStats: setItem either stores the text or throws,
\* and the exception is caught
saveStats(st, old, writeOk) == IF writeOk THEN JSONstringify(st) ELSE old

-----------------------------------------------------------------------------
(* game.js: pool, choices *)

getRegionPool(region) ==
    IF region = NoRegion THEN Indices(SONGS)
    ELSE SelectSeq(Indices(SONGS), LAMBDA i : SONGS[i].region = region)

\* SONGS.find((s) => s.commonName === commonName): the first match, or NoSong
find(commonName) ==
    IF \E i \in DOMAIN SONGS : SONGS[i].commonName = commonName
    THEN CHOOSE i \in DOMAIN SONGS :
            /\ SONGS[i].commonName = commonName
            /\ \A j \in DOMAIN SONGS : SONGS[j].commonName = commonName => i <= j
    ELSE NoSong

\* the names of a pool, with the empty ones dropped (.filter(Boolean))
poolNames(pool) ==
    LET names == [i \in DOMAIN pool |-> SONGS[pool[i]].commonName]
    IN SelectSeq(names, LAMBDA n : n # "")

\* buildChoices drawing the wrong names from all of SONGS instead of the
\* region pool
buildChoices_FromAllSongs(region, correctName) ==
    LET pool == poolNames(Indices(SONGS))
        others == SelectSeq(pool, LAMBDA n : n # correctName)
    IN UNION {shuffle(<<correctName>> \o slice(w, WrongCount)) : w \in shuffle(others)}

\* every array buildChoices(correctName) can return
buildChoices(region, correctName) ==
    LET pool == poolNames(getRegionPool(region))
        others == SelectSeq(pool, LAMBDA n : n # correctName)
    IN UNION {shuffle(<<correctName>> \o slice(w, WrongCount)) : w \in shuffle(others)}

\* renderAnswers on choices that leave the correct name out
renderAnswers_WithoutCorrect(region, song) ==
    {find(SONGS[pool_i].commonName) :
        pool_i \in {i \in Range(getRegionPool(region)) :
                      /\ SONGS[i].commonName # ""
                      /\ SONGS[i].commonName # SONGS[song].commonName}} \ {NoSong}

\* the song objects renderAnswers can attach to a button of the round: one
\* of them per name buildChoices can return.  Which min(4, pool) of them a
\* render shows is buildChoices' draw; handleAnswer reads only the object of
\* the clicked button.
renderAnswers(region, song) ==
    {find(SONGS[pool_i].commonName) :
        pool_i \in {i \in Range(getRegionPool(region)) : SONGS[i].commonName # ""}
                   \cup {song}} \ {NoSong}

-----------------------------------------------------------------------------
(* game.js: handlers *)

\* renderRound without "nextBtnEl.disabled = true"
renderRound_LeavesNext(region, songs, index) ==
    /\ currentSong' = songs[index + 1]
    /\ answerBtns' = renderAnswers(region, songs[index + 1])
    /\ hasAnswered' = FALSE
    /\ hadWrongGuess' = FALSE
    /\ UNCHANGED nextBtnDisabled
    /\ answersDisabled' = FALSE

\* renderRound, called with sessionSongs and sessionIndex already set
renderRound(region, songs, index) ==
    /\ currentSong' = songs[index + 1]
    /\ answerBtns' = renderAnswers(region, songs[index + 1])
    /\ hasAnswered' = FALSE
    /\ hadWrongGuess' = FALSE
    /\ nextBtnDisabled' = TRUE
    /\ answersDisabled' = FALSE

\* startNewGame without "roundsAnswered = 0"
startNewGame_KeepsRoundsAnswered(region) ==
    LET pool == getRegionPool(region) IN
    IF pool = <<>>
    THEN UNCHANGED <<sessionSongs, sessionIndex, currentSong, roundsAnswered,
                     scoreCorrect, hasAnswered, hadWrongGuess, answerBtns,
                     analyticsCalls, nextBtnDisabled, answersDisabled>>
    ELSE \E s \in shuffle(pool) :
            /\ sessionSongs' = slice(s, TOTAL_ROUNDS)
            /\ sessionIndex' = 0
            /\ UNCHANGED roundsAnswered
            /\ scoreCorrect' = 0
            /\ renderRound(region, sessionSongs', 0)
            /\ analyticsCalls' =
                    <<recordGameStarted(currentMode', getActiveRegionName(region))>>

\* startNewGame without "scoreCorrect = 0"
startNewGame_KeepsScore(region) ==
    LET pool == getRegionPool(region) IN
    IF pool = <<>>
    THEN UNCHANGED <<sessionSongs, sessionIndex, currentSong, roundsAnswered,
                     scoreCorrect, hasAnswered, hadWrongGuess, answerBtns,
                     analyticsCalls, nextBtnDisabled, answersDisabled>>
    ELSE \E s \in shuffle(pool) :
            /\ sessionSongs' = slice(s, TOTAL_ROUNDS)
            /\ sessionIndex' = 0
            /\ roundsAnswered' = 0
            /\ UNCHANGED scoreCorrect
            /\ renderRound(region, sessionSongs', 0)
            /\ analyticsCalls' =
                    <<recordGameStarted(currentMode', getActiveRegionName(region))>>

\* startNewGame with the first song of the shuffle taken twice
startNewGame_FirstSongTwice(region) ==
    LET pool == getRegionPool(region) IN
    IF pool = <<>>
    THEN UNCHANGED <<sessionSongs, sessionIndex, currentSong, roundsAnswered,
                     scoreCorrect, hasAnswered, hadWrongGuess, answerBtns,
                     analyticsCalls, nextBtnDisabled, answersDisabled>>
    ELSE \E s \in shuffle(pool) :
            /\ sessionSongs' = slice(<<s[1]>> \o s, TOTAL_ROUNDS)
            /\ sessionIndex' = 0
            /\ roundsAnswered' = 0
            /\ scoreCorrect' = 0
            /\ renderRound(region, sessionSongs', 0)
            /\ analyticsCalls' =
                    <<recordGameStarted(currentMode', getActiveRegionName(region))>>

startNewGame(region) ==
    LET pool == getRegionPool(region) IN
    IF pool = <<>>
    THEN UNCHANGED <<sessionSongs, sessionIndex, currentSong, roundsAnswered,
                     scoreCorrect, hasAnswered, hadWrongGuess, answerBtns,
                     analyticsCalls, nextBtnDisabled, answersDisabled>>
    ELSE \E s \in shuffle(pool) :
            /\ sessionSongs' = slice(s, TOTAL_ROUNDS)
            /\ sessionIndex' = 0
            /\ roundsAnswered' = 0
            /\ scoreCorrect' = 0
            /\ renderRound(region, sessionSongs', 0)
            /\ analyticsCalls' =
                    <<recordGameStarted(currentMode', getActiveRegionName(region))>>

\* showEndOverlay reading the score as it was before the last answer
showEndOverlay_ScoreBeforeLastAnswer ==
    /\ endMessageText' = endMessage(scoreCorrect, currentMode)
    /\ endOverlayHidden' = FALSE
    /\ analyticsCalls' = Append(analyticsCalls,
            recordGameCompleted(currentMode, getActiveRegionName(currentRegion),
                                scoreCorrect', TOTAL_ROUNDS))

\* showEndOverlay, called when scoreCorrect has its final value
showEndOverlay ==
    /\ endMessageText' = endMessage(scoreCorrect', currentMode)
    /\ endOverlayHidden' = FALSE
    /\ analyticsCalls' = Append(analyticsCalls,
            recordGameCompleted(currentMode, getActiveRegionName(currentRegion),
                                scoreCorrect', TOTAL_ROUNDS))

\* hideEndOverlay; part_002 hideElement(elEndOverlay)
hideEndOverlay ==
    /\ endOverlayHidden' = TRUE
    /\ endMessageText' = NoText

\* handleAnswer counting a wrong guess as an answered round
handleAnswer_WrongGuessCounts(songObj) ==
    IF hasAnswered \/ currentSong = NoSong \/ songObj = NoSong
    THEN UNCHANGED <<gameVars, domVars>>
    ELSE /\ hadWrongGuess' = (SONGS[songObj].commonName # SONGS[currentSong].commonName)
         /\ hasAnswered' = TRUE
         /\ roundsAnswered' = roundsAnswered + 1
         /\ scoreCorrect' = IF ~hadWrongGuess' THEN scoreCorrect + 1 ELSE scoreCorrect
         /\ answersDisabled' = TRUE
         /\ IF roundsAnswered' >= TOTAL_ROUNDS
            THEN nextBtnDisabled' = TRUE /\ showEndOverlay
            ELSE /\ nextBtnDisabled' = FALSE
                 /\ UNCHANGED <<endOverlayHidden, endMessageText, analyticsCalls>>
         /\ UNCHANGED <<sciNamesOn, sessionSongs, sessionIndex, currentSong,
                        answerBtns, startOverlayHidden>>

handleAnswer(songObj) ==
    IF hasAnswered \/ currentSong = NoSong \/ songObj = NoSong
    THEN UNCHANGED <<gameVars, domVars>>
    ELSE IF SONGS[songObj].commonName # SONGS[currentSong].commonName
    THEN /\ hadWrongGuess' = TRUE
         /\ UNCHANGED <<sciNamesOn, sessionSongs, sessionIndex, currentSong,
                        roundsAnswered, scoreCorrect, hasAnswered, answerBtns,
                        analyticsCalls, domVars>>
    ELSE /\ hasAnswered' = TRUE
         /\ roundsAnswered' = roundsAnswered + 1
         /\ scoreCorrect' = IF ~hadWrongGuess THEN scoreCorrect + 1 ELSE scoreCorrect
         /\ answersDisabled' = TRUE
         /\ IF roundsAnswered' >= TOTAL_ROUNDS
            THEN nextBtnDisabled' = TRUE /\ showEndOverlay
            ELSE /\ nextBtnDisabled' = FALSE
                 /\ UNCHANGED <<endOverlayHidden, endMessageText, analyticsCalls>>
         /\ UNCHANGED <<sciNamesOn, sessionSongs, sessionIndex, currentSong,
                        hadWrongGuess, answerBtns, startOverlayHidden>>

goToNextRound ==
    IF ~hasAnswered \/ roundsAnswered >= TOTAL_ROUNDS
    THEN UNCHANGED <<gameVars, domVars>>
    ELSE /\ sessionIndex' = sessionIndex + 1
         /\ IF sessionIndex' < Len(sessionSongs)
            THEN renderRound(currentRegion, sessionSongs, sessionIndex')
            ELSE UNCHANGED <<currentSong, hasAnswered, hadWrongGuess, answerBtns,
                             nextBtnDisabled, answersDisabled>>
         /\ UNCHANGED <<sciNamesOn, sessionSongs, roundsAnswered, scoreCorrect,
                        analyticsCalls, startOverlayHidden, endOverlayHidden,
                   endMessageText>>

setModeAndStart(mode) ==
    /\ currentMode' = mode
    /\ startOverlayHidden' = TRUE
    /\ startNewGame(currentRegion)
    /\ UNCHANGED <<currentRegion, sciNamesOn, endOverlayHidden, endMessageText>>

\* the key buildRegionButtons counts a song under
regionKey(s) == IF s.region = "" THEN "Unknown region" ELSE s.region

\* the named regions buildRegionButtons offers, beside "All regions"
buildRegionButtons ==
    {name \in {regionKey(SONGS[i]) : i \in DOMAIN SONGS} :
        Cardinality({i \in DOMAIN SONGS : regionKey(SONGS[i]) = name}) > RegionThreshold}

\* a click on a region button; NoRegion is the "All regions" button
regionButtonClick(name) ==
    /\ currentRegion' = name
    /\ UNCHANGED currentMode
    /\ startNewGame(name)
    /\ UNCHANGED <<sciNamesOn, startOverlayHidden, endOverlayHidden,
                   endMessageText>>

playAgainClick ==
    /\ hideEndOverlay
    /\ UNCHANGED currentMode
    /\ startNewGame(currentRegion)
    /\ UNCHANGED <<currentRegion, sciNamesOn, startOverlayHidden>>

sciToggleClick ==
    /\ sciNamesOn' = ~sciNamesOn
    /\ UNCHANGED <<currentMode, currentRegion, domVars, sessionSongs, sessionIndex,
                   currentSong, roundsAnswered, scoreCorrect, hasAnswered, hadWrongGuess,
                   answerBtns, analyticsCalls>>

-----------------------------------------------------------------------------
(* part_002: pool, queue, options *)

\* the map getRegionsFromSpecies builds, read at one region
getRegionsFromSpecies(data, r) ==
    Cardinality({i \in DOMAIN data :
        r \in (IF data[i].regions # {} THEN data[i].regions ELSE {"All"})})

\* the regions buildRegionButtons makes a button for
buildRegionButtons2 ==
    {AllRegions} \cup
    {r \in UNION {IF ALL_SPECIES[i].regions # {} THEN ALL_SPECIES[i].regions ELSE {"All"} :
                    i \in DOMAIN ALL_SPECIES} :
        getRegionsFromSpecies(ALL_SPECIES, r) > RegionThreshold}

\* the value applyRegionFilter leaves in filteredSpecies
applyRegionFilter(region) ==
    IF region = AllRegions THEN Indices(ALL_SPECIES)
    ELSE LET f == SelectSeq(Indices(ALL_SPECIES),
                            LAMBDA i : region \in ALL_SPECIES[i].regions)
         IN IF f = <<>> THEN Indices(ALL_SPECIES) ELSE f

\* resetSpeciesQueue drawing every queue entry at random instead of shuffling
resetSpeciesQueue_DrawsWithRepeats(filtered) ==
    LET n == Len(IF filtered = <<>> THEN Indices(ALL_SPECIES) ELSE filtered)
    IN [1..n -> 1..n]

\* resetSpeciesQueue taking the indices of ALL_SPECIES, not of filteredSpecies
resetSpeciesQueue_IndexesCatalog(filtered) ==
    shuffleArray(Indices(ALL_SPECIES))

\* the queues resetSpeciesQueue can leave in speciesQueue
resetSpeciesQueue(filtered) ==
    shuffleArray(Indices(IF filtered = <<>> THEN Indices(ALL_SPECIES) ELSE filtered))

\* pickOtherIndices without the filter that drops the correct index
pickOtherIndices_KeepsCorrect(pool, correctIndex, count) ==
    {slice(sh, count) : sh \in shuffleArray(pool)}

pickOtherIndices(pool, correctIndex, count) ==
    {slice(sh, count) :
        sh \in shuffleArray(SelectSeq(pool, LAMBDA idx : idx # correctIndex))}

\* arr[i] of JavaScript: undefined (falsy, written NoSong) when i is no index
\* of arr; NoSong also stands for the undefined index [].shift() returns
at(arr, i) == IF i \in DOMAIN arr THEN arr[i] ELSE NoSong

\* every array buildOptions(correctIdx) can return
buildOptions(filtered, correctIdx) ==
    {[k \in DOMAIN pool |-> at(filtered, pool[k])] :
        pool \in UNION {shuffleArray(<<correctIdx>> \o others) :
                          others \in pickOtherIndices(Indices(filtered), correctIdx, WrongCount)}}

-----------------------------------------------------------------------------
(* part_002: handlers *)

\* what renderQuestion does to the controls: fresh answer buttons, Next disabled
\* renderQuestion without "nextBtn.disabled = true"
renderQuestion_LeavesNextEnabled(species) ==
    IF species = NoSong
    THEN UNCHANGED <<nextBtnDisabled, answersDisabled>>
    ELSE UNCHANGED nextBtnDisabled /\ answersDisabled' = FALSE

renderQuestion(species) ==
    IF species = NoSong
    THEN UNCHANGED <<nextBtnDisabled, answersDisabled>>
    ELSE nextBtnDisabled' = TRUE /\ answersDisabled' = FALSE

\* startNewRound, on the given filteredSpecies, speciesQueue and currentRound
startNewRound(filtered0, queue, round) ==
    LET filtered == IF filtered0 = <<>> THEN applyRegionFilter(currentRegion') ELSE filtered0
    IN /\ filteredSpecies' = filtered
       /\ \E q \in (IF queue = <<>> THEN resetSpeciesQueue(filtered) ELSE {queue}) :
            LET correctIdx == IF q = <<>> THEN NoSong ELSE Head(q) IN
            /\ speciesQueue' = IF q = <<>> THEN <<>> ELSE Tail(q)
            /\ currentSpecies' = at(filtered, correctIdx)
            /\ \E options \in {Range(o) : o \in buildOptions(filtered, correctIdx)} :
                    currentOptions' = options
       /\ firstGuessThisRound' = TRUE
       /\ hasAnsweredThisRound' = FALSE
       /\ currentRound' = round + 1
       /\ renderQuestion(currentSpecies')

\* startNewGame2 without "correctFirstTry = 0"
startNewGame2_KeepsScore(region) ==
    /\ UNCHANGED correctFirstTry
    /\ hideEndOverlay
    /\ \E q \in resetSpeciesQueue(applyRegionFilter(region)) :
            startNewRound(applyRegionFilter(region), q, 0)

startNewGame2(region) ==
    /\ correctFirstTry' = 0
    /\ hideEndOverlay
    /\ \E q \in resetSpeciesQueue(applyRegionFilter(region)) :
            startNewRound(applyRegionFilter(region), q, 0)

showEndOverlay2 ==
    /\ endMessageText' = getEndMessage(currentMode, correctFirstTry)
    /\ endOverlayHidden' = FALSE

\* handleAnswer2 with the first-try test left out: every correct answer scores
handleAnswer2_ScoresEveryCorrect(chosenSpecies) ==
    IF currentSpecies = NoSong \/ hasAnsweredThisRound
    THEN UNCHANGED <<queueVars, domVars>>
    ELSE IF chosenSpecies = currentSpecies
    THEN /\ correctFirstTry' = correctFirstTry + 1
         /\ hasAnsweredThisRound' = TRUE
         /\ answersDisabled' = TRUE
         /\ nextBtnDisabled' = FALSE
         /\ UNCHANGED <<showScientificNames, filteredSpecies, speciesQueue, currentRound,
                        currentSpecies, currentOptions, firstGuessThisRound,
                        startOverlayHidden, endOverlayHidden,
                   endMessageText>>
    ELSE /\ firstGuessThisRound' = FALSE
         /\ UNCHANGED <<showScientificNames, filteredSpecies, speciesQueue, currentRound,
                        correctFirstTry, currentSpecies, currentOptions,
                        hasAnsweredThisRound, domVars>>

\* handleAnswer2 without the early return on an answered round
handleAnswer2_NoAnsweredGuard(chosenSpecies) ==
    IF currentSpecies = NoSong
    THEN UNCHANGED <<queueVars, domVars>>
    ELSE IF chosenSpecies = currentSpecies
    THEN /\ correctFirstTry' =
                IF firstGuessThisRound THEN correctFirstTry + 1 ELSE correctFirstTry
         /\ hasAnsweredThisRound' = TRUE
         /\ answersDisabled' = TRUE
         /\ nextBtnDisabled' = FALSE
         /\ UNCHANGED <<showScientificNames, filteredSpecies, speciesQueue, currentRound,
                        currentSpecies, currentOptions, firstGuessThisRound,
                        startOverlayHidden, endOverlayHidden,
                   endMessageText>>
    ELSE /\ firstGuessThisRound' = FALSE
         /\ UNCHANGED <<showScientificNames, filteredSpecies, speciesQueue, currentRound,
                        correctFirstTry, currentSpecies, currentOptions,
                        hasAnsweredThisRound, domVars>>

handleAnswer2(chosenSpecies) ==
    IF currentSpecies = NoSong \/ hasAnsweredThisRound
    THEN UNCHANGED <<queueVars, domVars>>
    ELSE IF chosenSpecies = currentSpecies
    THEN /\ correctFirstTry' =
                IF firstGuessThisRound THEN correctFirstTry + 1 ELSE correctFirstTry
         /\ hasAnsweredThisRound' = TRUE
         /\ answersDisabled' = TRUE
         /\ nextBtnDisabled' = FALSE
         /\ UNCHANGED <<showScientificNames, filteredSpecies, speciesQueue, currentRound,
                        currentSpecies, currentOptions, firstGuessThisRound,
                        startOverlayHidden, endOverlayHidden,
                   endMessageText>>
    ELSE /\ firstGuessThisRound' = FALSE
         /\ UNCHANGED <<showScientificNames, filteredSpecies, speciesQueue, currentRound,
                        correctFirstTry, currentSpecies, currentOptions,
                        hasAnsweredThisRound, domVars>>

\* the click listener of #next-btn without the test for the last round
nextBtnClick2_NoLastRoundTest ==
    /\ startNewRound(filteredSpecies, speciesQueue, currentRound)
    /\ UNCHANGED <<showScientificNames, correctFirstTry,
                   startOverlayHidden, endOverlayHidden,
                   endMessageText>>

\* the click listener of #next-btn starting a new game after the last round
nextBtnClick2_RestartsAfterLastRound ==
    IF currentRound >= ROUNDS_PER_GAME
    THEN /\ startNewGame2(currentRegion)
         /\ UNCHANGED <<showScientificNames, startOverlayHidden>>
    ELSE /\ startNewRound(filteredSpecies, speciesQueue, currentRound)
         /\ UNCHANGED <<showScientificNames, correctFirstTry,
                        startOverlayHidden, endOverlayHidden, endMessageText>>

\* the click listener of #next-btn
nextBtnClick2 ==
    IF currentRound >= ROUNDS_PER_GAME
    THEN /\ showEndOverlay2
         /\ UNCHANGED <<queueVars, nextBtnDisabled, answersDisabled, startOverlayHidden>>
    ELSE /\ startNewRound(filteredSpecies, speciesQueue, currentRound)
         /\ UNCHANGED <<showScientificNames, correctFirstTry,
                        startOverlayHidden, endOverlayHidden,
                   endMessageText>>

startBtnClick2 ==
    /\ startOverlayHidden' = TRUE
    /\ UNCHANGED currentRegion
    /\ startNewGame2(currentRegion)
    /\ UNCHANGED <<currentMode, showScientificNames>>

modeChangeClick2(mode) ==
    /\ currentMode' = mode
    /\ UNCHANGED currentRegion
    /\ startNewGame2(currentRegion)
    /\ UNCHANGED <<showScientificNames, startOverlayHidden>>

regionButtonClick2(region) ==
    /\ currentRegion' = region
    /\ startNewGame2(region)
    /\ UNCHANGED <<currentMode, showScientificNames, startOverlayHidden>>

playAgainClick2 ==
    /\ UNCHANGED currentRegion
    /\ startNewGame2(currentRegion)
    /\ UNCHANGED <<currentMode, showScientificNames, startOverlayHidden>>

sciToggleClick2 ==
    /\ showScientificNames' = ~showScientificNames
    /\ renderQuestion(currentSpecies)
    /\ UNCHANGED <<currentMode, currentRegion, filteredSpecies, speciesQueue, currentRound,
                   correctFirstTry, currentSpecies, currentOptions, firstGuessThisRound,
                   hasAnsweredThisRound, startOverlayHidden, endOverlayHidden,
                   endMessageText>>

-----------------------------------------------------------------------------
(* The user's events.  Each is one click, dispatched to the version running. *)

IsGame == impl = "game.js"
IsQueue == impl = "part_002"
\* game.js initGame returns before attachEvents when SONGS is empty: its
\* handlers exist only on a non-empty catalog
GameEvents == IsGame /\ SONGS # <<>>

(* The events of the page.  Press... is what the handlers of the game do,
   on the variables of the game alone. *)

PressStart ==
    /\ ~startOverlayHidden
    /\ \/ GameEvents /\ setModeAndStart(SPECTRO) /\ UNCHANGED queueVars
       \/ IsQueue /\ startBtnClick2 /\ UNCHANGED gameVars
    /\ UNCHANGED pageVars

PressAnswer ==
    /\ \/ /\ GameEvents
          /\ \E songObj \in answerBtns :
                IF answersDisabled THEN UNCHANGED <<gameVars, domVars>>
                ELSE handleAnswer(songObj)
          /\ UNCHANGED queueVars
       \/ /\ IsQueue
          /\ \E sp \in currentOptions :
                IF answersDisabled THEN UNCHANGED <<queueVars, domVars>>
                ELSE handleAnswer2(sp)
          /\ UNCHANGED gameVars
    /\ UNCHANGED <<pageVars, currentMode, currentRegion>>

PressNext ==
    /\ UNCHANGED <<pageVars, currentMode, currentRegion>>
    /\ \/ /\ GameEvents
          /\ IF nextBtnDisabled THEN UNCHANGED <<gameVars, domVars>>
             ELSE sessionIndex < MaxSessionIndex /\ goToNextRound
          /\ UNCHANGED queueVars
       \/ /\ IsQueue
          /\ IF nextBtnDisabled THEN UNCHANGED <<queueVars, domVars>> ELSE nextBtnClick2
          /\ UNCHANGED gameVars

PressSciToggle ==
    /\ \/ GameEvents /\ sciToggleClick /\ UNCHANGED queueVars
       \/ IsQueue /\ sciToggleClick2 /\ UNCHANGED gameVars
    /\ UNCHANGED pageVars

PressModeChange ==
    /\ \E mode \in MODES :
        \/ GameEvents /\ setModeAndStart(mode) /\ UNCHANGED queueVars
        \/ IsQueue /\ modeChangeClick2(mode) /\ UNCHANGED gameVars
    /\ UNCHANGED pageVars

PressRegionButton ==
    /\ \/ /\ GameEvents
          /\ \E name \in {NoRegion} \cup buildRegionButtons : regionButtonClick(name)
          /\ UNCHANGED queueVars
       \/ /\ IsQueue
          /\ \E region \in buildRegionButtons2 : regionButtonClick2(region)
          /\ UNCHANGED gameVars
    /\ UNCHANGED pageVars

PressPlayAgain ==
    /\ ~endOverlayHidden
    /\ \/ GameEvents /\ playAgainClick /\ UNCHANGED queueVars
       \/ IsQueue /\ playAgainClick2 /\ UNCHANGED gameVars
    /\ UNCHANGED pageVars

\* "Change mode" and "Change region" of the end overlay: both hide it and
\* open the overlay that holds the buttons of ClickModeChange / ClickRegionButton
PressEndOverlayChange ==
    /\ ~endOverlayHidden
    /\ endOverlayHidden' = TRUE
    /\ endMessageText' = NoText
    /\ UNCHANGED <<pageVars, currentMode, currentRegion, nextBtnDisabled,
                   answersDisabled, startOverlayHidden, gameVars, queueVars>>

\* the events in the specifications of the game: Analytics.js's own state is
\* not followed there
ClickStart == PressStart /\ UNCHANGED statsVars
ClickAnswer == PressAnswer /\ UNCHANGED statsVars
ClickNext == PressNext /\ UNCHANGED statsVars
ClickSciToggle == PressSciToggle /\ UNCHANGED statsVars
ClickModeChange == PressModeChange /\ UNCHANGED statsVars
ClickRegionButton == PressRegionButton /\ UNCHANGED statsVars
ClickPlayAgain == PressPlayAgain /\ UNCHANGED statsVars
ClickEndOverlayChange == PressEndOverlayChange /\ UNCHANGED statsVars

-----------------------------------------------------------------------------
(* The state when DOMContentLoaded has been handled *)

InitGame(c) ==
    /\ impl = "game.js"
    /\ catalog = c
    /\ currentMode = SPECTRO
    /\ currentRegion = NoRegion
    /\ filteredSpecies = <<>>

InitQueue(c) ==
    /\ impl = "part_002"
    /\ catalog = c
    /\ currentMode = SPECTRO
    /\ currentRegion = AllRegions
    /\ filteredSpecies = Indices(c)

InitPage ==
    /\ nextBtnDisabled \in BOOLEAN
    /\ revealOverlayHidden = TRUE
    /\ answersDisabled = FALSE
    /\ startOverlayHidden = FALSE
    /\ endOverlayHidden = TRUE
    /\ endMessageText = NoText
    /\ analyticsCalls = <<>>
    /\ sciNamesOn = FALSE
    /\ sessionSongs = <<>>
    /\ sessionIndex = 0
    /\ currentSong = NoSong
    /\ roundsAnswered = 0
    /\ scoreCorrect = 0
    /\ hasAnswered = FALSE
    /\ hadWrongGuess = FALSE
    /\ answerBtns = {}
    /\ showScientificNames = FALSE
    /\ speciesQueue = <<>>
    /\ currentRound = 0
    /\ correctFirstTry = 0
    /\ currentSpecies = NoSong
    /\ currentOptions = {}
    /\ firstGuessThisRound = TRUE
    /\ hasAnsweredThisRound = FALSE

\* the specifications of the game follow Analytics.js by the calls it receives
\* (analyticsCalls); its own state moves in the specifications of the
\* Analytics section
InitRest ==
    /\ InitPage
    /\ analyticsPresent = TRUE
    /\ stats = createEmptyStats
    /\ storage = NoBlob

Catalogs == {<<>>, CatalogOne, CatalogThree}

Init ==
    /\ \E c \in Catalogs : InitGame(c) \/ InitQueue(c)
    /\ callArgs = <<>>
    /\ callResult = <<>>
    /\ InitRest

Next ==
    \/ ClickStart
    \/ ClickAnswer
    \/ ClickNext
    \/ ClickSciToggle
    \/ ClickModeChange
    \/ ClickRegionButton
    \/ ClickPlayAgain
    \/ ClickEndOverlayChange

Spec == Init /\ [][Next]_vars

-----------------------------------------------------------------------------
(* Single calls of buildChoices (game.js) and buildOptions (part_002): the
   catalog, the region and the target are drawn at the start, callArgs holds
   the target, callResult the array returned. *)

InitOptions ==
    /\ \E c \in OptionCatalogs :
        \/ /\ impl = "game.js"
           /\ catalog = c
           /\ currentRegion \in {NoRegion, "East", "West"}
           /\ filteredSpecies = <<>>
           /\ callArgs \in {<<i>> : i \in Range(getRegionPool(currentRegion))}
        \/ /\ impl = "part_002"
           /\ catalog = c
           /\ currentRegion \in {AllRegions, "East", "West"}
           /\ filteredSpecies = applyRegionFilter(currentRegion)
           /\ callArgs \in {<<i>> : i \in DOMAIN filteredSpecies}
    /\ currentMode = SPECTRO
    /\ callResult = <<>>
    /\ InitRest

CallBuildChoices ==
    /\ IsGame
    /\ callResult = <<>>
    /\ callResult' \in buildChoices(currentRegion, SONGS[callArgs[1]].commonName)
    /\ UNCHANGED <<impl, catalog, revealOverlayHidden, callArgs, statsVars, currentMode, currentRegion, domVars,
                   gameVars, queueVars>>

CallBuildOptions ==
    /\ IsQueue
    /\ callResult = <<>>
    /\ callResult' \in buildOptions(filteredSpecies, callArgs[1])
    /\ UNCHANGED <<impl, catalog, revealOverlayHidden, callArgs, statsVars, currentMode, currentRegion, domVars,
                   gameVars, queueVars>>

NextOptions == CallBuildChoices \/ CallBuildOptions

SpecOptions == InitOptions /\ [][NextOptions]_vars

-----------------------------------------------------------------------------
(* The region picker of game.js on a catalog whose six species carry no
   region: the picker offers "All regions" and "Unknown region". *)

InitRegions ==
    /\ InitGame(CatalogSix)
    /\ callArgs = <<>>
    /\ callResult = <<>>
    /\ InitRest

NextRegions == ClickRegionButton

SpecRegions == InitRegions /\ [][NextRegions]_vars

-----------------------------------------------------------------------------
(* Properties.  Vocabulary shared by the claims. *)

\* a round is on the screen
Started == IF IsGame THEN currentSong # NoSong ELSE currentSpecies # NoSong
\* the current round has been answered correctly
Answered == IF IsGame THEN hasAnswered ELSE hasAnsweredThisRound
\* a wrong answer has been submitted in the current round
WrongGuessMade == IF IsGame THEN hadWrongGuess ELSE ~firstGuessThisRound
Score == IF IsGame THEN scoreCorrect ELSE correctFirstTry
Target == IF IsGame THEN currentSong ELSE currentSpecies
\* the round on the screen, counted from 1
RoundNumber == IF IsGame THEN sessionIndex + 1 ELSE currentRound
\* the options of the round
Options == IF IsGame THEN answerBtns ELSE currentOptions
\* the state startNewGame leaves: round 1 open, nothing scored
FreshGame ==
    IF IsGame
    THEN /\ scoreCorrect = 0 /\ roundsAnswered = 0 /\ sessionIndex = 0
         /\ currentSong # NoSong /\ currentSong = sessionSongs[1]
         /\ ~hasAnswered /\ ~hadWrongGuess /\ ~answersDisabled
    ELSE /\ correctFirstTry = 0 /\ currentRound = 1
         /\ currentSpecies # NoSong
         /\ ~hasAnsweredThisRound /\ firstGuessThisRound /\ ~answersDisabled
\* a step that starts a game
StartStep == ClickStart \/ ClickModeChange \/ ClickRegionButton \/ ClickPlayAgain
\* a click on an answer button that does not carry the target
WrongAnswerStep ==
    /\ ~answersDisabled
    /\ \/ IsGame /\ \E songObj \in answerBtns :
                        /\ SONGS[songObj].commonName # SONGS[currentSong].commonName
                        /\ handleAnswer(songObj)
       \/ IsQueue /\ \E sp \in currentOptions \ {currentSpecies} : handleAnswer2(sp)

\* C1: a round that becomes answered adds 1 to the score exactly when no
\* wrong answer was submitted earlier in that round, and otherwise leaves the
\* score as it is; either way Next is enabled unless the game is over.  A
\* wrong answer in an open round is remembered, keeps the round open and
\* scores nothing, and the memory of it is dropped only by a new round.
C1_FirstTryScoring ==
    [][ /\ (Started /\ ~Answered /\ Answered') =>
              /\ Score' = IF WrongGuessMade THEN Score ELSE Score + 1
              /\ (IsGame /\ roundsAnswered' < TOTAL_ROUNDS => ~nextBtnDisabled')
              /\ (IsQueue => ~nextBtnDisabled')
        /\ (Started /\ ~Answered /\ WrongAnswerStep) =>
              /\ WrongGuessMade' /\ ~Answered' /\ Score' = Score
        /\ (Started /\ WrongGuessMade /\ ~WrongGuessMade') =>
              \/ StartStep
              \/ Answered /\ RoundNumber' = RoundNumber + 1
      ]_vars

\* C1 witness: round 1 answered correctly after a wrong guess, nothing scored,
\* Next enabled
C1_Witness ==
    /\ IsQueue /\ currentRound = 1 /\ hasAnsweredThisRound /\ ~firstGuessThisRound
    /\ correctFirstTry = 0 /\ ~nextBtnDisabled

\* C2: the score is always in 0..5; an answer, Next or name-toggle click
\* leaves it as it is or adds exactly 1, and adds 1 only in the step that
\* turns the round from open to answered; an answered round stays answered
\* until the next round is drawn, so a round scores at most once.
C2_ScoreMonotoneBounded ==
    /\ [](Score \in 0..TOTAL_ROUNDS)
    /\ [][ (ClickAnswer \/ ClickNext \/ ClickSciToggle) =>
              /\ Score' = Score \/ (Score' = Score + 1 /\ ~Answered /\ Answered')
              /\ (Answered /\ ~Answered' => RoundNumber' = RoundNumber + 1)
         ]_vars

\* C2 witness: the last round answered with every round scored
C2_Witness ==
    /\ IsQueue /\ currentRound = ROUNDS_PER_GAME /\ hasAnsweredThisRound
    /\ correctFirstTry = ROUNDS_PER_GAME

\* C3: a click on an answer button of a round that is already answered
\* changes neither the score, the count of rounds answered, the round's
\* flags, the target nor the round number.
C3_AnswerAfterCorrectIsNoOp ==
    [][ (ClickAnswer /\ Started /\ Answered) =>
            UNCHANGED <<Score, roundsAnswered, Answered, WrongGuessMade, Target,
                        RoundNumber, Options>>
      ]_vars

\* C3 witness: an answered, scored round whose answer buttons can be clicked
\* again (the name toggle has drawn them anew)
C3_Witness ==
    /\ IsQueue /\ hasAnsweredThisRound /\ ~answersDisabled
    /\ correctFirstTry = 1 /\ currentRound = 1 /\ currentSpecies \in currentOptions

\* the game-complete state: the end summary is on the screen
GameComplete == ~endOverlayHidden
\* the step in which the 5th round of the game is answered correctly
FifthAnswerStep ==
    /\ Started /\ ~Answered /\ Answered'
    /\ IF IsGame THEN roundsAnswered' = TOTAL_ROUNDS ELSE currentRound = ROUNDS_PER_GAME

\* C4: in a started game of the session-list version, on every non-empty
\* pool, advancing from an answered round before 5 rounds have been answered
\* opens a further round, so that the player who keeps answering correctly
\* and advancing gets to 5 answered rounds and the game-complete state.
C4_AdvanceLeadsToFiveRounds ==
    [][ (IsGame /\ ClickNext /\ Started /\ Answered /\ ~nextBtnDisabled
            /\ roundsAnswered < TOTAL_ROUNDS) =>
            (~Answered' /\ ~answersDisabled' /\ Target' = sessionSongs[sessionIndex' + 1])
      ]_vars

\* C5: the game-complete state is entered in the step in which the 5th round
\* is answered correctly, and in no other step.
C5_CompleteExactlyAtFifthAnswer ==
    [][ /\ FifthAnswerStep => GameComplete'
        /\ (~GameComplete /\ GameComplete') => FifthAnswerStep
      ]_vars

\* C6: once a game of the draw-queue version is started, currentRound is
\* between 1 and 5.
C6_RoundNumberInRange ==
    (IsQueue /\ Started) => currentRound \in 1..ROUNDS_PER_GAME

\* C6 witness: the 5th round answered, Next enabled
C6_Witness ==
    /\ IsQueue /\ currentRound = ROUNDS_PER_GAME /\ hasAnsweredThisRound
    /\ ~nextBtnDisabled /\ endOverlayHidden /\ correctFirstTry = 2

\* the pool a call of buildChoices / buildOptions draws from, and its target
CallPool ==
    IF IsGame THEN poolNames(getRegionPool(currentRegion))
    ELSE filteredSpecies
CallTarget ==
    IF IsGame THEN SONGS[callArgs[1]].commonName ELSE filteredSpecies[callArgs[1]]

PoolAfterStart ==
    IF IsGame THEN getRegionPool(currentRegion') ELSE filteredSpecies'

\* C8: a click on any button of the region picker, on a non-empty catalog,
\* gives a region pool of at least one species and begins round 1.
C8_EveryRegionBeginsRoundOne ==
    [][ (ClickRegionButton /\ catalog # <<>>) =>
            (Len(PoolAfterStart) >= 1 /\ FreshGame')
      ]_vars

\* C9: a step that starts a game on a non-empty pool, from any state, leaves
\* score 0, no round answered, round 1 current and that round open.
C9_StartNewGameResets ==
    [][ (StartStep /\ PoolAfterStart # <<>>) =>
            (FreshGame' /\ (IsGame => roundsAnswered' = 0) /\ nextBtnDisabled')
      ]_vars

\* C9 witness: a fresh game in a mode only a later start step can have set
C9_Witness ==
    /\ IsGame /\ FreshGame /\ currentMode = "image" /\ startOverlayHidden
    /\ Len(catalog) = 3 /\ currentSong = 2

\* C10: a click on Next while the round is not yet answered correctly
\* changes neither the round number, the target, the options, the score nor
\* the flags of the round.
C10_NextOnOpenRoundIgnored ==
    [][ (ClickNext /\ Started /\ ~Answered) =>
            UNCHANGED <<RoundNumber, currentRound, sessionIndex, roundsAnswered,
                        Target, Options, Score, Answered, WrongGuessMade,
                        speciesQueue>>
      ]_vars

\* C10 witness: round 2 open after a wrong guess, Next disabled
C10_Witness ==
    /\ IsQueue /\ currentRound = 2 /\ ~hasAnsweredThisRound /\ ~firstGuessThisRound
    /\ nextBtnDisabled /\ correctFirstTry = 1 /\ endOverlayHidden

\* the rounds of the current game that have been answered correctly
AnsweredCount ==
    IF IsGame THEN roundsAnswered
    ELSE IF hasAnsweredThisRound THEN currentRound ELSE currentRound - 1
\* the species a round of the current game can have as its target
TargetPool == IF IsGame THEN Range(sessionSongs) ELSE Range(filteredSpecies)

\* C11: a click on the enabled Next button in an answered round, with fewer
\* than 5 rounds answered, makes the next round current with a target drawn
\* from the pool, leaves it open with no wrong guess recorded and its answer
\* buttons live, and leaves the score as it is.
C11_AdvanceOpensNextRound ==
    [][ (ClickNext /\ Started /\ Answered /\ ~nextBtnDisabled
            /\ AnsweredCount < TOTAL_ROUNDS) =>
            /\ RoundNumber' = RoundNumber + 1
            /\ ~Answered' /\ ~WrongGuessMade' /\ ~answersDisabled'
            /\ Score' = Score
            /\ AnsweredCount' = AnsweredCount
            /\ Target' \in TargetPool'
            /\ IsGame => Target' = sessionSongs[sessionIndex' + 1]
      ]_vars

\* C13: a wrong answer in an open round marks that the first guess is used
\* and changes nothing else: score, round number, rounds answered, target,
\* options, mode, region, queue and session list stay, the round stays open,
\* Next stays as it is and no end summary appears.
C13_WrongAnswerOnlyUsesFirstGuess ==
    [][ (Started /\ ~Answered /\ WrongAnswerStep) =>
            /\ WrongGuessMade' /\ ~Answered' /\ ~answersDisabled'
            /\ UNCHANGED <<Score, RoundNumber, AnsweredCount, Target, Options>>
            /\ UNCHANGED <<envVars, currentMode, currentRegion, sessionSongs,
                           filteredSpecies, speciesQueue, analyticsCalls,
                           nextBtnDisabled, endOverlayHidden, endMessageText>>
      ]_vars

\* C13 witness: round 2 of the session-list version still open after a wrong
\* guess, round 1 scored
C13_Witness ==
    /\ IsGame /\ sessionIndex = 1 /\ hadWrongGuess /\ ~hasAnswered
    /\ roundsAnswered = 1 /\ scoreCorrect = 1 /\ nextBtnDisabled /\ ~answersDisabled

-----------------------------------------------------------------------------
(* Whole games: the session-list version on a catalog of five species, the
   draw-queue version on three.  The player picks the mode before the first
   round and then plays, toggles names and plays again. *)

PickMode == ~Started /\ ClickModeChange

InitSession ==
    /\ InitGame(CatalogFive) \/ InitQueue(CatalogThree)
    /\ callArgs = <<>>
    /\ callResult = <<>>
    /\ InitRest

NextSession ==
    \/ ClickStart
    \/ PickMode
    \/ ClickAnswer
    \/ ClickNext
    \/ ClickSciToggle
    \/ ClickPlayAgain
    \/ ClickEndOverlayChange

SpecSession == InitSession /\ [][NextSession]_vars

\* all 5 rounds of the current game are answered
SessionOver == Started /\ AnsweredCount >= TOTAL_ROUNDS

\* C12: once all 5 rounds are answered, a click on an answer button, on Next
\* or on the name toggle leaves score, round number and rounds answered as
\* they are and the game complete, and so does hiding the end summary; a
\* step in which the game stops being complete is the start of a new game:
\* it leaves round 1 open with score 0.
C12_CompleteIsTerminal ==
    [][ /\ (SessionOver /\ (ClickAnswer \/ ClickNext \/ ClickSciToggle)) =>
              (UNCHANGED <<Score, RoundNumber, AnsweredCount, Target>> /\ SessionOver')
        /\ (SessionOver /\ ClickEndOverlayChange) => SessionOver'
        /\ (SessionOver /\ ~SessionOver') => FreshGame'
      ]_vars

\* C12 witness: the session-list version with 5 rounds answered, the end
\* summary shown and the names toggled
C12_Witness ==
    /\ IsGame /\ roundsAnswered = TOTAL_ROUNDS /\ sessionIndex = 4 /\ hasAnswered
    /\ ~endOverlayHidden /\ sciNamesOn /\ scoreCorrect = 3 /\ nextBtnDisabled

\* the pool of the region the step leaves current
NewRegionPool ==
    IF IsGame THEN Range(getRegionPool(currentRegion'))
    ELSE Range(applyRegionFilter(currentRegion'))

\* C14: a step of a game in progress that gives the mode or the region a new
\* value starts a fresh session: score 0, no round answered, round 1 open
\* with a target of the new region's pool.
C14_ModeOrRegionChangeRestarts ==
    [][ (Started /\ (currentMode' # currentMode \/ currentRegion' # currentRegion)) =>
            (FreshGame' /\ AnsweredCount' = 0 /\ Target' \in NewRegionPool)
      ]_vars

\* C15: on an empty catalog no round begins: round counter, score, target
\* and options keep the values they have before any game is started.
C15_EmptyCatalogRefusesStart ==
    catalog = <<>> =>
        /\ ~Started
        /\ Score = 0
        /\ Options = {}
        /\ IF IsGame THEN sessionIndex = 0 /\ roundsAnswered = 0 ELSE currentRound = 0


-----------------------------------------------------------------------------
(* The draw queue of part_002 *)

\* the position of the current target in filteredSpecies
TargetIndex == CHOOSE i \in DOMAIN filteredSpecies : filteredSpecies[i] = currentSpecies
\* the queue right after a draw that regenerated it: with the index just
\* popped it is a permutation of the indices of filteredSpecies
FullPermutationPopped ==
    /\ Len(speciesQueue) = Len(filteredSpecies) - 1
    /\ Range(speciesQueue) \cup {TargetIndex} = DOMAIN filteredSpecies
\* the queue between draws: the indices the current block has still to draw,
\* each once, the block being the draws (k-1)*n+1 .. k*n of the game
QueueHoldsRestOfBlock ==
    LET n == Len(filteredSpecies) IN
    /\ Len(speciesQueue) = n - 1 - ((currentRound - 1) % n)
    /\ Cardinality(Range(speciesQueue)) = Len(speciesQueue)
    /\ Range(speciesQueue) \subseteq DOMAIN filteredSpecies \ {TargetIndex}

\* C16: in the draw-queue version every step either draws nothing (queue,
\* target, round and pool unchanged), or starts a game by drawing from a freshly
\* generated permutation of the pool indices, or draws the head of a non-empty
\* queue, or, on an exhausted queue, regenerates a full permutation and pops
\* from it; once a round has begun the queue holds exactly the indices the current
\* block of pool-size draws has not drawn yet, so each block draws every index
\* once.
C16_ReshuffleAndContinue ==
    [][ (IsQueue /\ catalog # <<>>) =>
          /\ \/ UNCHANGED <<speciesQueue, currentSpecies, currentRound, filteredSpecies>>
             \/ currentRound' = 1 /\ FullPermutationPopped'
             \/ /\ currentRound' = currentRound + 1
                /\ UNCHANGED filteredSpecies
                /\ IF speciesQueue # <<>>
                   THEN /\ speciesQueue' = Tail(speciesQueue)
                        /\ currentSpecies' = filteredSpecies[Head(speciesQueue)]
                   ELSE FullPermutationPopped'
          /\ Started' => QueueHoldsRestOfBlock'
      ]_vars
\* round 4 on a pool of three: the queue was exhausted by round 3 and has been
\* regenerated for the second block
C16_Witness ==
    /\ IsQueue /\ Len(filteredSpecies) = 3 /\ currentRound = 4
    /\ Len(speciesQueue) = 2 /\ TargetIndex \notin Range(speciesQueue)


-----------------------------------------------------------------------------
(* Options and the region pool *)

\* the species on the answer buttons of one call: game.js looks each name of
\* buildChoices up in SONGS (renderAnswers), part_002 shows the species of
\* buildOptions
PresentedOptions ==
    IF IsGame THEN {find(callResult[k]) : k \in DOMAIN callResult}
    ELSE Range(callResult)
\* the species of the region the call was made for
RegionPool ==
    IF IsGame THEN Range(getRegionPool(currentRegion)) ELSE Range(filteredSpecies)

-----------------------------------------------------------------------------
(* The end-message functions called on their own: the mode and the score are
   drawn at the start into callArgs, the function is called twice and
   callResult holds the strings returned, in order. *)

InitMessages ==
    /\ InitGame(CatalogOne) \/ InitQueue(CatalogOne)
    /\ callArgs \in {<<mode, score>> : mode \in MODES, score \in 0..TOTAL_ROUNDS}
    /\ callResult = <<>>
    /\ InitRest
    /\ nextBtnDisabled

CallEndMessage ==
    /\ IsGame
    /\ Len(callResult) < 2
    /\ callResult' = Append(callResult, endMessage(callArgs[2], callArgs[1]))
    /\ UNCHANGED <<impl, catalog, revealOverlayHidden, callArgs, statsVars, currentMode, currentRegion, domVars,
                   gameVars, queueVars>>

CallGetEndMessage ==
    /\ IsQueue
    /\ Len(callResult) < 2
    /\ callResult' = Append(callResult, getEndMessage(callArgs[1], callArgs[2]))
    /\ UNCHANGED <<impl, catalog, revealOverlayHidden, callArgs, statsVars, currentMode, currentRegion, domVars,
                   gameVars, queueVars>>

NextMessages == CallEndMessage \/ CallGetEndMessage

SpecMessages == InitMessages /\ [][NextMessages]_vars

-----------------------------------------------------------------------------
(* The perfect game *)

\* the end message of the version that is running
EndMessageFor(mode, score) ==
    IF IsGame THEN endMessage(score, mode) ELSE getEndMessage(mode, score)
\* every round answered so far was answered on the first try
NoWrongGuessSoFar == Score = AnsweredCount /\ ~(WrongGuessMade /\ ~Answered)

\* C19: a correct first answer in a game without a wrong guess so far keeps
\* the score equal to the number of rounds answered, so that five such rounds
\* end with score 5; and whenever the end overlay is up with score 5, all 5
\* rounds are answered and its text is the message for (current mode, 5).
C19_PerfectGameShowsMasterMessage ==
    [][ /\ (NoWrongGuessSoFar /\ ~WrongGuessMade /\ AnsweredCount' = AnsweredCount + 1) =>
                (Score' = AnsweredCount' /\ NoWrongGuessSoFar')
        /\ (GameComplete' /\ Score' = TOTAL_ROUNDS) =>
                /\ AnsweredCount' = TOTAL_ROUNDS
                /\ endMessageText' = EndMessageFor(currentMode', TOTAL_ROUNDS)
      ]_vars
\* a perfect game of game.js in image mode, its overlay up
C19_Witness ==
    /\ IsGame /\ currentMode = "image" /\ ~endOverlayHidden
    /\ scoreCorrect = TOTAL_ROUNDS /\ roundsAnswered = TOTAL_ROUNDS
    /\ endMessageText = "Master of insect identification! Your field guide game is strong!"


-----------------------------------------------------------------------------
(* What game.js reports to window.InsectGameAnalytics during one game, on the
   catalog of six species without a region: the player starts a game, plays
   it, and may click the "Unknown region" button of the region picker. *)

ClickUnknownRegion ==
    /\ GameEvents
    /\ "Unknown region" \in buildRegionButtons
    /\ regionButtonClick("Unknown region")
    /\ UNCHANGED queueVars
    /\ UNCHANGED envVars

InitAnalytics ==
    /\ InitGame(CatalogSix)
    /\ callArgs = <<>>
    /\ callResult = <<>>
    /\ InitRest
    /\ nextBtnDisabled

NextAnalytics == ClickStart \/ ClickAnswer \/ ClickNext \/ ClickUnknownRegion

SpecAnalytics == InitAnalytics /\ [][NextAnalytics]_vars

\* C20: the calls of one game begin with its one recordGameStarted; at most
\* one recordGameCompleted follows, and it carries the mode and the region of
\* the start call, the score of the game and 5 as the number of rounds.
C20_AnalyticsWellOrdered ==
    (IsGame /\ Started) =>
        /\ Len(analyticsCalls) \in {1, 2}
        /\ analyticsCalls[1].call = "recordGameStarted"
        /\ Len(analyticsCalls) = 2 =>
            /\ analyticsCalls[2].call = "recordGameCompleted"
            /\ analyticsCalls[2].mode = analyticsCalls[1].mode
            /\ analyticsCalls[2].region = analyticsCalls[1].region
            /\ analyticsCalls[2].score = scoreCorrect
            /\ analyticsCalls[2].roundsTotal = TOTAL_ROUNDS


-----------------------------------------------------------------------------
(* game.js together with Analytics.js: the game of five species, with the
   analytics object there or not, localStorage taking writes or refusing them.
   The player starts the first game with Start or with the "All regions"
   button, plays it, and from the end overlay changes the region to
   "All regions", which starts the next game. *)

\* how many games one run reports to Analytics.js
MaxGames == 1

\* what one call does to the stats object
received(st, c) ==
    CASE c.call = "recordGameStarted" -> recordGameStartedIn(st, c.mode, c.region)
      [] c.call = "recordGameCompleted" ->
            recordGameCompletedIn(st, c.mode, c.region, c.score, c.roundsTotal)
      [] c.call = "recordRegionChoice" -> recordRegionChoiceIn(st, c.region)

RECURSIVE receivedAll(_, _)
receivedAll(st, calls) ==
    IF calls = <<>> THEN st ELSE receivedAll(received(st, Head(calls)), Tail(calls))

\* Analytics.js receives the calls of one handler, each ending in saveStats;
\* nothing happens when the object is not there
\* ("if (window.InsectGameAnalytics)")
Receive(calls) ==
    /\ UNCHANGED analyticsPresent
    /\ IF analyticsPresent /\ calls # <<>>
       THEN /\ stats' = receivedAll(stats, calls)
            /\ storage' = saveStats(stats', storage, storage # Blocked)
       ELSE UNCHANGED <<stats, storage>>

\* a guarded call of a record function that writes without catching: it
\* throws when the object is there and the write fails
recordReturns_NoCatch(present, writeOk) == ~present \/ writeOk

\* a guarded call "if (window.InsectGameAnalytics) ...record...(...)" returns
\* to the handler: it is skipped when the object is absent, and saveStats
\* catches the exception of a failed write
recordReturns(present, writeOk) == TRUE

\* the run may report one more game
MayReport == ~analyticsPresent \/ stats.gamesStarted < MaxGames

ReportStart ==
    /\ MayReport
    /\ currentSong = NoSong
    /\ PressStart
    /\ Receive(analyticsCalls')

ReportAnswer ==
    /\ PressAnswer
    /\ Receive(IF endOverlayHidden /\ ~endOverlayHidden'
               THEN <<analyticsCalls'[Len(analyticsCalls')]>> ELSE <<>>)

ReportNext == PressNext /\ UNCHANGED statsVars

ReportEndOverlayChange == PressEndOverlayChange /\ UNCHANGED statsVars

\* the "All regions" button, before the first game or after "Change region"
\* on the end overlay: recordRegionChoice is called between
\* "currentRegion = null" and startNewGame()
ReportAllRegions ==
    /\ MayReport
    /\ currentSong = NoSong \/ (endOverlayHidden /\ roundsAnswered = TOTAL_ROUNDS)
    /\ IF recordReturns(analyticsPresent, storage # Blocked)
       THEN /\ GameEvents /\ regionButtonClick(NoRegion)
            /\ UNCHANGED <<pageVars, queueVars>>
            /\ Receive(<<recordRegionChoice(AllRegions)>> \o analyticsCalls')
       ELSE /\ currentRegion' = NoRegion
            /\ stats' = recordRegionChoiceIn(stats, AllRegions)
            /\ UNCHANGED <<pageVars, queueVars, gameVars, domVars, currentMode,
                           analyticsPresent, storage>>

InitReports ==
    /\ InitGame(CatalogFive)
    /\ callArgs = <<>>
    /\ callResult = <<>>
    /\ InitPage
    /\ nextBtnDisabled
    /\ analyticsPresent \in BOOLEAN
    /\ stats = createEmptyStats
    \* without window.InsectGameAnalytics nothing reads or writes the store
    /\ storage \in IF analyticsPresent THEN {NoBlob, Blocked} ELSE {NoBlob}

NextReports ==
    \/ ReportStart \/ ReportAnswer \/ ReportNext
    \/ ReportEndOverlayChange \/ ReportAllRegions

SpecReports == InitReports /\ [][NextReports]_vars


\* what Start and a region button leave: round 1 of a new game on songs of
\* the region's pool, mode and name display as they were
NewGameStep ==
    /\ FreshGame'
    /\ Range(sessionSongs') \subseteq Range(getRegionPool(currentRegion'))
    /\ currentSong' = sessionSongs'[1]
    /\ UNCHANGED <<pageVars, queueVars, currentMode, sciNamesOn>>
\* a step of the game taken alone: the handlers, which read and write no
\* state of Analytics.js
PlainStep ==
    PressAnswer \/ PressNext \/ PressEndOverlayChange \/ NewGameStep
\* how often Analytics.js has counted a choice of the region
chosenCount(st, regionName) ==
    IF regionName \in DOMAIN st.regionStats THEN st.regionStats[regionName].chosenCount
    ELSE 0

StatsEntries ==
    {stats.modeStats[m] : m \in DOMAIN stats.modeStats}
        \cup {stats.regionStats[r] : r \in DOMAIN stats.regionStats}

C28_SessionBookkeeping ==
    (IsGame /\ Started) =>
        /\ sessionIndex < Len(sessionSongs)
        /\ currentSong = sessionSongs[sessionIndex + 1]
        /\ roundsAnswered = sessionIndex + (IF hasAnswered THEN 1 ELSE 0)

-----------------------------------------------------------------------------
(* Whole games of both versions on a catalog of five species: Start, answers,
   Next and Play again. *)

InitTargets ==
    /\ InitGame(CatalogFive) \/ InitQueue(CatalogFive)
    /\ callArgs = <<>>
    /\ callResult = <<>>
    /\ InitRest
    /\ nextBtnDisabled

NextTargets == ClickStart \/ ClickAnswer \/ ClickNext \/ ClickPlayAgain
SpecTargets == InitTargets /\ [][NextTargets]_vars

\* the targets of the rounds the current game has had so far: the head of the
\* session list up to the current round, or the species whose index the draw
\* queue no longer holds
TargetsSoFar ==
    IF IsGame
    THEN {sessionSongs[k] : k \in 1..Min(sessionIndex + 1, Len(sessionSongs))}
    ELSE {filteredSpecies[i] : i \in DOMAIN filteredSpecies \ Range(speciesQueue)}

\* C29: on a region pool of at least 5 species the rounds of one game have
\* different targets: the targets so far are as many as the rounds so far,
\* the current target is one of them, a step to the next round adds to them
\* a target that is not yet among them, and a step that stays in round 2 or
\* later keeps them.
C29_TargetsPairwiseDistinct ==
    [][ (Started' /\ Cardinality(NewRegionPool) >= TOTAL_ROUNDS) =>
          /\ Target' \in TargetsSoFar'
          /\ Cardinality(TargetsSoFar') = RoundNumber'
          /\ (Started /\ RoundNumber' = RoundNumber + 1) =>
                /\ Target' \notin TargetsSoFar
                /\ TargetsSoFar' = TargetsSoFar \cup {Target'}
          /\ (RoundNumber' = RoundNumber /\ RoundNumber >= 2) =>
                /\ Target' = Target
                /\ TargetsSoFar' = TargetsSoFar
      ]_vars
\* round 5 of the draw-queue version on five species: the queue is used up
C29_Witness ==
    /\ IsQueue /\ Len(filteredSpecies) = 5 /\ currentRound = 5
    /\ speciesQueue = <<>> /\ Cardinality(TargetsSoFar) = 5

\* C30: a step that flips the name display leaves score, round number,
\* target, options, the answered and wrong-guess flags as they are, and
\* leaves Next and the answer buttons as enabled or disabled as they were.
C30_NameToggleChangesOnlyFlag ==
    [][ (sciNamesOn' # sciNamesOn \/ showScientificNames' # showScientificNames) =>
          /\ Score' = Score /\ RoundNumber' = RoundNumber /\ Target' = Target
          /\ Options' = Options
          /\ Answered' = Answered /\ WrongGuessMade' = WrongGuessMade
          /\ nextBtnDisabled' = nextBtnDisabled
          /\ answersDisabled' = answersDisabled
      ]_vars

\* C31: in game.js, once a game has started, Next is enabled exactly when
\* the current round has been answered correctly and fewer than 5 rounds of
\* the game have been answered.
C31_NextEnabledIffAnsweredBelowFive ==
    (IsGame /\ Started) =>
        (~nextBtnDisabled <=> (hasAnswered /\ roundsAnswered < TOTAL_ROUNDS))
\* the fifth round is answered: Next is disabled in an answered round
C31_Witness ==
    /\ IsGame /\ hasAnswered /\ roundsAnswered = TOTAL_ROUNDS
    /\ nextBtnDisabled /\ sessionIndex = 4 /\ sciNamesOn

-----------------------------------------------------------------------------
(* The draw-queue version on a catalog of seven species, six of region East
   and one of region West: the picker offers "All regions" and "East", and
   the pool of East is smaller than the catalog the page loads with.  One
   start on the pool of all seven has 5040 queues with 20 sets of options
   each, so this specification follows the games of East: the East button is
   pressed on the page as loaded, where filteredSpecies holds all seven, and
   again in a first round not yet answered; every queue and every set of
   options such a start can produce is followed through the answers of its
   first round, and Next is followed in the games whose shuffle left the
   indices in order.  The games on all species are played in Spec. *)

CatalogSeven == OptionCatalog(7, 6)

\* the queue of a game whose shuffle left the indices in order
PoolQueueInOrder ==
    speciesQueue = SubSeq(Indices(filteredSpecies), currentRound + 1, Len(filteredSpecies))

PoolPickerOpen ==
    LET n == Len(filteredSpecies) IN
    \/ currentRound = 0
    \/ /\ currentRound = 1 /\ ~hasAnsweredThisRound /\ firstGuessThisRound
       /\ PoolQueueInOrder
       /\ currentOptions = {filteredSpecies[i] : i \in {1, n - 2, n - 1, n}}

InitPool ==
    /\ InitQueue(CatalogSeven)
    /\ callArgs = <<>>
    /\ callResult = <<>>
    /\ InitRest

PoolRegionButton ==
    /\ IsQueue /\ PoolPickerOpen
    /\ \E region \in buildRegionButtons2 \ {AllRegions} : regionButtonClick2(region)
    /\ UNCHANGED <<gameVars, pageVars, statsVars>>

PoolNext == PoolQueueInOrder /\ ClickNext

NextPool == PoolRegionButton \/ ClickAnswer \/ PoolNext
SpecPool == InitPool /\ [][NextPool]_vars

-----------------------------------------------------------------------------
(* Both versions on a catalog of three species with distinct names and on
   one where two species carry the same name: Start, answers, Next, the name
   toggle and Play again. *)

CatalogTwins == << Species("a", "East"), Species("a", "East"), Species("b", "East") >>

InitNames ==
    /\ \E c \in {CatalogThree, CatalogTwins} : InitGame(c) \/ InitQueue(c)
    /\ callArgs = <<>>
    /\ callResult = <<>>
    /\ InitRest

NextNames ==
    ClickStart \/ ClickAnswer \/ ClickNext \/ ClickSciToggle \/ ClickPlayAgain
SpecNames == InitNames /\ [][NextNames]_vars

NamesDistinct ==
    \A i, j \in DOMAIN catalog :
        i # j => catalog[i].commonName # catalog[j].commonName
\* a round is on the screen and has not been answered correctly
OpenRound == Started /\ ~Answered
\* the options of the round that handleAnswer takes as correct: game.js
\* compares the commonName of the button's song with the target's, part_002
\* compares the species objects
AcceptedOptions ==
    IF IsGame
    THEN {o \in answerBtns : SONGS[o].commonName = SONGS[currentSong].commonName}
    ELSE {o \in currentOptions : o = currentSpecies}

\* C33: in every open round, with or without wrong guesses made, a click on
\* one of the answer buttons completes the round, at least one of the options
\* is taken as correct by handleAnswer, and exactly one when the names of the
\* catalog are distinct.
C33_OpenRoundCanBeCompleted ==
    OpenRound =>
        /\ ENABLED (ClickAnswer /\ Answered')
        /\ AcceptedOptions # {}
        /\ NamesDistinct => Cardinality(AcceptedOptions) = 1
\* game.js, the target is the second of two species of one name, and a wrong
\* guess has been made in the open round
C33_Witness ==
    /\ IsGame /\ ~NamesDistinct /\ OpenRound /\ WrongGuessMade
    /\ currentSong = 2 /\ AcceptedOptions = {1}
\* part_002, third round, open after a wrong guess
C33_WitnessQueue ==
    /\ IsQueue /\ OpenRound /\ WrongGuessMade /\ currentRound = 3
    /\ AcceptedOptions = {currentSpecies}

\* C34: in game.js, in every state, the score is at most the number of
\* rounds answered correctly in the current game, which is at most 5.
C34_ScoreAtMostAnsweredAtMostFive ==
    IsGame => (scoreCorrect <= roundsAnswered /\ roundsAnswered <= TOTAL_ROUNDS)
\* a finished game with one round answered after a wrong guess: score 4 of
\* 5 rounds answered
C34_Witness ==
    /\ IsGame /\ roundsAnswered = TOTAL_ROUNDS /\ scoreCorrect = 4
    /\ hasAnswered /\ ~endOverlayHidden

\* C24: every click on a button the region picker offers makes current a
\* region whose pool, under the pool filter, holds at least 6 species
\* (more than the 5 of the offer threshold).
C24_PickerPoolAtLeastSix ==
    [][ Cardinality(NewRegionPool) >= RegionThreshold + 1 ]_vars

-----------------------------------------------------------------------------
(* part_003: game.js with a reveal overlay after each correct answer.

   Its state is that of game.js; its handlers are those of game.js except
   the ones below.  currentMode is null until the first setModeAndStart. *)

NoMode == "<null>"
IsReveal == impl = "part_003"

\* startNewGame of part_003: returns at once without a mode, has no test for
\* an empty pool (there renderForMode(undefined) throws, after the resets)
startNewGame3(region) ==
    LET pool == getRegionPool(region) IN
    IF currentMode' = NoMode
    THEN UNCHANGED <<sessionSongs, sessionIndex, currentSong, roundsAnswered,
                     scoreCorrect, hasAnswered, hadWrongGuess, answerBtns,
                     analyticsCalls, nextBtnDisabled, answersDisabled>>
    ELSE IF pool = <<>>
    THEN /\ sessionSongs' = <<>>
         /\ sessionIndex' = 0
         /\ roundsAnswered' = 0
         /\ scoreCorrect' = 0
         /\ hasAnswered' = FALSE
         /\ hadWrongGuess' = FALSE
         /\ nextBtnDisabled' = TRUE
         /\ currentSong' = NoSong
         /\ UNCHANGED <<answerBtns, analyticsCalls, answersDisabled>>
    ELSE \E s \in shuffle(pool) :
            /\ sessionSongs' = slice(s, TOTAL_ROUNDS)
            /\ sessionIndex' = 0
            /\ roundsAnswered' = 0
            /\ scoreCorrect' = 0
            /\ renderRound(region, sessionSongs', 0)
            /\ analyticsCalls' =
                    <<recordGameStarted(currentMode', getActiveRegionName(region))>>

setModeAndStart3(mode) ==
    /\ currentMode' = mode
    /\ startOverlayHidden' = TRUE
    /\ startNewGame3(currentRegion)
    /\ UNCHANGED <<currentRegion, sciNamesOn, endOverlayHidden, endMessageText>>

playAgainClick3 ==
    /\ hideEndOverlay
    /\ UNCHANGED currentMode
    /\ startNewGame3(currentRegion)
    /\ UNCHANGED <<currentRegion, sciNamesOn, startOverlayHidden>>

\* showRevealOverlay(currentSong, firstTry)
showRevealOverlay == revealOverlayHidden' = FALSE

\* handleAnswer enabling Next at once, as game.js does
handleAnswer3_EnablesNext(songObj) ==
    IF hasAnswered \/ currentSong = NoSong \/ songObj = NoSong
    THEN UNCHANGED <<gameVars, domVars, revealOverlayHidden>>
    ELSE IF SONGS[songObj].commonName # SONGS[currentSong].commonName
    THEN /\ hadWrongGuess' = TRUE
         /\ UNCHANGED <<sciNamesOn, sessionSongs, sessionIndex, currentSong,
                        roundsAnswered, scoreCorrect, hasAnswered, answerBtns,
                        analyticsCalls, domVars, revealOverlayHidden>>
    ELSE /\ hasAnswered' = TRUE
         /\ roundsAnswered' = roundsAnswered + 1
         /\ scoreCorrect' = IF ~hadWrongGuess THEN scoreCorrect + 1 ELSE scoreCorrect
         /\ answersDisabled' = TRUE
         /\ nextBtnDisabled' = FALSE
         /\ showRevealOverlay
         /\ UNCHANGED <<sciNamesOn, sessionSongs, sessionIndex, currentSong,
                        hadWrongGuess, answerBtns, analyticsCalls, startOverlayHidden,
                        endOverlayHidden, endMessageText>>

\* handleAnswer of part_003: a correct answer disables Next and shows the
\* reveal overlay; the end overlay is left to the close button of the reveal
handleAnswer3(songObj) ==
    IF hasAnswered \/ currentSong = NoSong \/ songObj = NoSong
    THEN UNCHANGED <<gameVars, domVars, revealOverlayHidden>>
    ELSE IF SONGS[songObj].commonName # SONGS[currentSong].commonName
    THEN /\ hadWrongGuess' = TRUE
         /\ UNCHANGED <<sciNamesOn, sessionSongs, sessionIndex, currentSong,
                        roundsAnswered, scoreCorrect, hasAnswered, answerBtns,
                        analyticsCalls, domVars, revealOverlayHidden>>
    ELSE /\ hasAnswered' = TRUE
         /\ roundsAnswered' = roundsAnswered + 1
         /\ scoreCorrect' = IF ~hadWrongGuess THEN scoreCorrect + 1 ELSE scoreCorrect
         /\ answersDisabled' = TRUE
         /\ nextBtnDisabled' = TRUE
         /\ showRevealOverlay
         /\ UNCHANGED <<sciNamesOn, sessionSongs, sessionIndex, currentSong,
                        hadWrongGuess, answerBtns, analyticsCalls, startOverlayHidden,
                        endOverlayHidden, endMessageText>>

\* the click handler of #reveal-close-btn
revealCloseClick ==
    /\ revealOverlayHidden' = TRUE
    /\ UNCHANGED <<sciNamesOn, sessionSongs, sessionIndex, currentSong, roundsAnswered,
                   scoreCorrect, hasAnswered, hadWrongGuess, answerBtns,
                   answersDisabled, startOverlayHidden>>
    /\ IF roundsAnswered >= TOTAL_ROUNDS
       THEN showEndOverlay /\ UNCHANGED nextBtnDisabled
       ELSE /\ nextBtnDisabled' = FALSE
            /\ UNCHANGED <<endOverlayHidden, endMessageText, analyticsCalls>>

(* The events of part_003 *)

restVars == <<impl, catalog, callArgs, callResult, statsVars, queueVars>>

RevealStart ==
    /\ IsReveal
    /\ ~startOverlayHidden
    /\ setModeAndStart3(SPECTRO)
    /\ UNCHANGED <<restVars, revealOverlayHidden>>

\* a mode button; followed here when pressed under the reveal overlay of
\* the first round
RevealModeChange ==
    /\ IsReveal
    /\ ~revealOverlayHidden /\ sessionIndex = 0
    /\ \E mode \in MODES : setModeAndStart3(mode)
    /\ UNCHANGED <<restVars, revealOverlayHidden>>

RevealAnswer ==
    /\ IsReveal
    /\ \E songObj \in answerBtns :
            IF answersDisabled THEN UNCHANGED <<gameVars, domVars, revealOverlayHidden>>
            ELSE handleAnswer3(songObj)
    /\ UNCHANGED <<restVars, currentMode, currentRegion>>

RevealNext ==
    /\ IsReveal
    /\ IF nextBtnDisabled THEN UNCHANGED <<gameVars, domVars>> ELSE goToNextRound
    /\ UNCHANGED <<restVars, revealOverlayHidden, currentMode, currentRegion>>

RevealClose ==
    /\ IsReveal
    /\ ~revealOverlayHidden
    /\ revealCloseClick
    /\ UNCHANGED <<restVars, currentMode, currentRegion>>

RevealPlayAgain ==
    /\ IsReveal
    /\ ~endOverlayHidden
    /\ playAgainClick3
    /\ UNCHANGED <<restVars, revealOverlayHidden>>

InitReveal ==
    /\ impl = "part_003"
    /\ catalog = CatalogFive
    /\ currentMode = NoMode
    /\ currentRegion = NoRegion
    /\ filteredSpecies = <<>>
    /\ callArgs = <<>>
    /\ callResult = <<>>
    /\ InitRest
    /\ nextBtnDisabled

NextReveal ==
    \/ RevealStart \/ RevealModeChange \/ RevealAnswer \/ RevealNext
    \/ RevealClose \/ RevealPlayAgain
SpecReveal == InitReveal /\ [][NextReveal]_vars

RevealCloseStep == ~revealOverlayHidden /\ revealOverlayHidden'
CorrectAnswerStep == roundsAnswered' = roundsAnswered + 1

\* C23: in part_003 a correct answer leaves Next disabled under the open
\* reveal overlay; Next is disabled whenever the reveal overlay is open, only
\* the close of the reveal overlay enables it, and no round begins while the
\* overlay is open.  The close enables Next and shows no end overlay when
\* fewer than 5 rounds are answered; with 5 answered it shows the end overlay,
\* reports the completed game, and leaves Next disabled.
C23_RevealGatesNext ==
    [][ /\ CorrectAnswerStep => (nextBtnDisabled' /\ ~revealOverlayHidden')
        /\ ~revealOverlayHidden' => nextBtnDisabled'
        /\ (nextBtnDisabled /\ ~nextBtnDisabled') => RevealCloseStep
        /\ (~revealOverlayHidden /\ sessionIndex' = sessionIndex + 1) => FALSE
        /\ RevealCloseStep =>
              IF roundsAnswered < TOTAL_ROUNDS
              THEN /\ ~nextBtnDisabled'
                   /\ UNCHANGED <<endOverlayHidden, analyticsCalls>>
              ELSE /\ nextBtnDisabled'
                   /\ ~endOverlayHidden'
                   /\ analyticsCalls' = Append(analyticsCalls,
                          recordGameCompleted(currentMode, AllRegions, scoreCorrect,
                                              TOTAL_ROUNDS))
      ]_vars
\* the reveal overlay of the fifth round has been closed
C23_Witness ==
    /\ IsReveal
    /\ revealOverlayHidden /\ roundsAnswered = TOTAL_ROUNDS
    /\ ~endOverlayHidden /\ nextBtnDisabled
    /\ Len(analyticsCalls) = 2

-----------------------------------------------------------------------------
(* Analytics.js called on its own.

   The script is loaded with no stored item, with one that does not parse,
   or with a localStorage that refuses writes; then its functions are called
   with any mode and region, up to MaxCalls calls, and the page may be
   loaded again at any time. *)

MaxCalls == 3

ApiModes == {SPECTRO, "image"}
\* null, "All regions" and a named region
ApiRegions == {NoRegion, AllRegions, "East"}
ApiScores == {0, 3, TOTAL_ROUNDS}

\* the sum of one counter over the entries of modeStats or regionStats
RECURSIVE SumOver(_, _)
SumOver(obj, field) ==
    IF DOMAIN obj = {} THEN 0
    ELSE LET k == CHOOSE x \in DOMAIN obj : TRUE
         IN obj[k][field] + SumOver([x \in DOMAIN obj \ {k} |-> obj[x]], field)

\* the calls the stats object has counted
CallsCounted(st) ==
    st.pageViews + st.gamesStarted + st.gamesCompleted
        + SumOver(st.regionStats, "chosenCount")

\* what every record... function ends with
Saved == storage' = saveStats(stats', storage, storage # Blocked)

apiFrame == <<impl, catalog, callResult, revealOverlayHidden, analyticsPresent,
              currentMode, currentRegion, domVars, gameVars, queueVars>>

ApiPageView ==
    /\ CallsCounted(stats) < MaxCalls
    /\ stats' = recordPageViewIn(stats)
    /\ Saved
    /\ callArgs' = [call |-> "recordPageView"]
    /\ UNCHANGED apiFrame

ApiGameStarted ==
    /\ CallsCounted(stats) < MaxCalls
    /\ \E mode \in ApiModes, regionName \in ApiRegions :
            /\ stats' = recordGameStartedIn(stats, mode, regionName)
            /\ callArgs' = recordGameStarted(mode, regionName)
    /\ Saved
    /\ UNCHANGED apiFrame

ApiGameCompleted ==
    /\ CallsCounted(stats) < MaxCalls
    /\ \E mode \in ApiModes, regionName \in ApiRegions, score \in ApiScores :
            /\ stats' = recordGameCompletedIn(stats, mode, regionName, score, TOTAL_ROUNDS)
            /\ callArgs' = recordGameCompleted(mode, regionName, score, TOTAL_ROUNDS)
    /\ Saved
    /\ UNCHANGED apiFrame

ApiRegionChoice ==
    /\ CallsCounted(stats) < MaxCalls
    /\ \E regionName \in ApiRegions :
            /\ stats' = recordRegionChoiceIn(stats, regionName)
            /\ callArgs' = recordRegionChoice(regionName)
    /\ Saved
    /\ UNCHANGED apiFrame

\* the page is loaded again: "let stats = loadStats()"
ApiLoad ==
    /\ stats' = loadStats(storage)
    /\ callArgs' = [call |-> "loadStats"]
    /\ UNCHANGED <<storage, apiFrame>>

InitStats ==
    /\ InitGame(CatalogOne)
    /\ callArgs = [call |-> "loadStats"]
    /\ callResult = <<>>
    /\ InitPage
    /\ nextBtnDisabled
    /\ analyticsPresent = TRUE
    /\ storage \in {NoBlob, Unparsable, Blocked}
    /\ stats = loadStats(storage)

NextStats ==
    \/ ApiPageView \/ ApiGameStarted \/ ApiGameCompleted \/ ApiRegionChoice \/ ApiLoad
SpecStats == InitStats /\ [][NextStats]_vars

SumsAgree(st) ==
    /\ st.gamesStarted = SumOver(st.modeStats, "gamesStarted")
    /\ st.gamesStarted = SumOver(st.regionStats, "gamesStarted")
    /\ st.gamesCompleted = SumOver(st.modeStats, "gamesCompleted")
    /\ st.gamesCompleted = SumOver(st.regionStats, "gamesCompleted")

\* the step changes the stats by one more choice of the region and nothing else
OnlyChosenCount(regionName) ==
    LET key == regKeyOf(regionName)
        before == IF key \in DOMAIN stats.regionStats THEN stats.regionStats[key]
                  ELSE NewRegionStats
    IN  /\ stats'.pageViews = stats.pageViews
        /\ stats'.gamesStarted = stats.gamesStarted
        /\ stats'.gamesCompleted = stats.gamesCompleted
        /\ stats'.modeStats = stats.modeStats
        /\ DOMAIN stats'.regionStats = DOMAIN stats.regionStats \cup {key}
        /\ \A r \in DOMAIN stats.regionStats \ {key} :
                stats'.regionStats[r] = stats.regionStats[r]
        /\ stats'.regionStats[key] = [before EXCEPT !.chosenCount = @ + 1]

\* C26: from empty stats, after any calls of recordGameStarted,
\* recordGameCompleted and recordRegionChoice, gamesStarted equals the sum of
\* gamesStarted over the modes and the sum over the regions, and so does
\* gamesCompleted; a recordRegionChoice call changes the chosenCount of the
\* chosen region and nothing else.
C26_CountersAgree ==
    [][ /\ SumsAgree(stats')
        /\ (stats' # stats /\ callArgs'.call = "recordRegionChoice") =>
                OnlyChosenCount(callArgs'.region)
      ]_vars
\* two games started in different modes, one of them in a named region that
\* was chosen once
C26_Witness ==
    /\ stats.gamesStarted = 2
    /\ DOMAIN stats.modeStats = ApiModes
    /\ DOMAIN stats.regionStats = {AllRegions, "East"}
    /\ stats.regionStats["East"].chosenCount = 1
    /\ stats.regionStats["East"].gamesStarted = 1

IsBlob(raw) == raw \notin {NoBlob, Unparsable, Blocked}

\* C27: a load with no stored item or with one that does not parse gives
\* zeroed counters; a call made while localStorage refuses the write returns
\* with the call counted in memory; a load of what a successful save stored
\* gives the counters that were saved.
C27_StorageFailuresAbsorbed ==
    [][ /\ (callArgs'.call = "loadStats" /\ ~IsBlob(storage)) =>
                /\ stats'.pageViews = 0 /\ stats'.gamesStarted = 0
                /\ stats'.gamesCompleted = 0
                /\ DOMAIN stats'.modeStats = {} /\ DOMAIN stats'.regionStats = {}
        /\ (callArgs'.call # "loadStats" /\ storage = Blocked) =>
                /\ storage' = Blocked
                /\ CallsCounted(stats') = CallsCounted(stats) + 1
        /\ IsBlob(storage') => loadStats(storage') = stats'
      ]_vars
\* the page has been loaded again after two completed games were saved
C27_Witness ==
    /\ callArgs.call = "loadStats"
    /\ IsBlob(storage)
    /\ stats.gamesCompleted = 2
    /\ stats.regionStats[AllRegions].totalRounds = 2 * TOTAL_ROUNDS

-----------------------------------------------------------------------------
(* The two shuffles, called on their own.

   The input is a list of n different items in any order, n up to MaxLen;
   the random
   values are the values of j (shuffleArray) or one key per item (shuffle),
   keys taken from n values so that equal keys occur. *)

MaxLen == 3

Keys(n) == [1..n -> 1..n]
DistinctKeys(n) == {r \in Keys(n) : \A i, k \in 1..n : r[i] = r[k] => i = k}

InitShuffle ==
    /\ InitGame(CatalogOne) \/ InitQueue(CatalogOne)
    /\ callArgs = <<>>
    /\ callResult = <<>>
    /\ InitRest
    /\ nextBtnDisabled

CallShuffle ==
    /\ IsGame
    /\ callArgs = <<>>
    /\ \E n \in 0..MaxLen : \E arr \in Orderings(1..n), r \in Keys(n) :
            /\ callArgs' = <<arr, r>>
            /\ callResult' = shuffleWith(arr, r)
    /\ UNCHANGED <<impl, catalog, revealOverlayHidden, statsVars, currentMode, currentRegion, domVars,
                   gameVars, queueVars>>

CallShuffleArray ==
    /\ IsQueue
    /\ callArgs = <<>>
    /\ \E n \in 0..MaxLen : \E arr \in Orderings(1..n), js \in IndexChoices(n) :
            /\ callArgs' = <<arr, js>>
            /\ callResult' = FisherYatesWith(arr, n, js)
    /\ UNCHANGED <<impl, catalog, revealOverlayHidden, statsVars, currentMode, currentRegion, domVars,
                   gameVars, queueVars>>

NextShuffle == CallShuffle \/ CallShuffleArray
SpecShuffle == InitShuffle /\ [][NextShuffle]_vars

\* C22: every result of a shuffle is an order of the input, and each order is
\* reached by as many random draws as any other: shuffleArray reaches each
\* order of n items by exactly one sequence of values of j (and there are
\* as many sequences as orders); shuffle reaches each order by exactly one
\* order of different keys.  The sets of results are the ones the game draws
\* from.
C22_ShuffleUniform ==
    callArgs # <<>> =>
        LET arr == callArgs[1]
            draw == callArgs[2]
            n == Len(arr)
            orders == Orderings(Range(arr))
        IN  /\ callResult \in orders
            /\ IF IsQueue
               THEN /\ {js \in IndexChoices(n) : FisherYatesWith(arr, n, js) = callResult}
                           = {draw}
                    /\ Cardinality(IndexChoices(n)) = Cardinality(orders)
                    /\ shuffleArray(arr) = {FisherYatesWith(arr, n, js) : js \in IndexChoices(n)}
               ELSE /\ draw \in DistinctKeys(n) =>
                           {r \in DistinctKeys(n) : shuffleWith(arr, r) = callResult} = {draw}
                    /\ Cardinality(DistinctKeys(n)) = Cardinality(orders)
                    /\ shuffle(arr) = {shuffleWith(arr, r) : r \in Keys(n)}
\* shuffleArray has turned three items into an order that takes two swaps
C22_Witness ==
    /\ IsQueue
    /\ callArgs # <<>>
    /\ callArgs[1] = <<1, 2, 3>>
    /\ callResult = <<2, 3, 1>>

====
